---- MODULE Spec2Model ----
(***************************************************************************)
(* A model of the GTSFM reconstruction pipeline orchestrator:              *)
(*   - gtsfm/multi_view_optimizer.py  (MultiViewOptimizer, init_cameras)   *)
(*   - gtsfm/scene_optimizer.py       (SceneOptimizer, persistence tasks)  *)
(*   - gtsfm/utils/geometry_comparisons.py (alignment and comparison)      *)
(* and of the pair-graph pruner gtsfm/utils/graph.py, whose source is not  *)
(* part of the tree and which is modelled from section 4.1 of the spec.    *)
(***************************************************************************)
EXTENDS Integers, Sequences, FiniteSets, TLC

(***************************************************************************)
(* Bounds of the model.                                                    *)
(***************************************************************************)
\* number of images of a scene (image indices are 0 .. NumImages-1)
NumImages == 5
\* largest number of candidate image pairs of a scene
MaxPairs == (NumImages + 1) \div 2

Images == 0 .. (NumImages - 1)
\* pair keys (i1, i2) with i1 < i2
AllPairs == {p \in Images \X Images : p[1] < p[2]}

\* Python's None, for every Optional value of the program
None == "None"

VARIABLES
    \* ---- the inputs and the output of the pair-graph pruner ----
    i2Ri1_graph,            \* pair key -> "Rot3" or None
    i2Ui1_graph,            \* pair key -> "Unit3" or None
    relative_pose_priors,   \* the pair keys that have a relative pose prior
    pruned,                 \* [called, i2Ri1, i2Ui1]: what pruning returned
    \* ---- graph construction and its execution by the engine ----
    entry,                  \* whose create_computation_graph the caller invoked
    image_pair_indices,     \* the candidate image pairs
    use_pose_slam,          \* MultiViewOptimizer._use_pose_slam_intitialization
    save_viz,               \* SceneOptimizer._save_two_view_correspondences_viz
    pc,                     \* where graph construction stands
    status,                 \* constructed node -> "pending" | "done" | "failed"
    requested,              \* the returned values the caller materializes
    needed,                 \* the nodes the engine runs for them
    result,                 \* "none" | "pending" | "returned" | "raised"
    rot_avg_in,             \* the relative rotations rotation averaging received
    trans_avg_in,           \* the directions translation averaging received
    \* ---- save_full_frontend_metrics ----
    two_view_report_dict,   \* pair key -> TwoViewEstimationReport or None
    insertion_order,        \* the keys of that dict in the order inserted
    frontend_metrics,       \* [called, raised, metrics_list, written]
    \* ---- utils/geometry_comparisons.py ----
    cmp,                    \* [fn, a, b, aSb, res]: one call and its outcome
    \* ---- global poses and init_cameras ----
    delayed_wRi,            \* per image: a global rotation or None
    wTi_list,               \* per image: a global pose or None
    all_intrinsics,         \* per image: its calibration
    cameras,                \* [called, raised, cams]: image index -> camera
    \* ---- densify: the source views of each reference view ----
    mvs                     \* [pairs, nviews, called, data, built, metas]

pruneVars == <<i2Ri1_graph, i2Ui1_graph, relative_pose_priors, pruned>>

graphVars == <<entry, image_pair_indices, use_pose_slam, save_viz, pc, status,
               requested, needed, result, rot_avg_in, trans_avg_in>>

reportVars == <<two_view_report_dict, insertion_order, frontend_metrics>>

compareVars == <<cmp>>

cameraVars == <<delayed_wRi, wTi_list, all_intrinsics, cameras>>


mvsVars == <<mvs>>

vars == <<pruneVars, graphVars, reportVars, compareVars, mvsVars, cameraVars>>

(***************************************************************************)
(* PairGraphPruner (spec section 4.1).                                     *)
(***************************************************************************)
Endpoints(k) == {k[1], k[2]}

\* the image indices touched by a set of pair keys
Touched(E) == UNION {Endpoints(k) : k \in E}

Restrict(f, S) == [k \in S |-> f[k]]

MinOf(S) == CHOOSE x \in S : \A y \in S : x <= y

\* the images reachable from the set S using the edges E (BFS to a fixpoint)
RECURSIVE Reach(_, _)
Reach(S, E) ==
    LET nxt == S \cup UNION {Endpoints(e) : e \in {e \in E : Endpoints(e) \cap S # {}}}
    IN  IF nxt = S THEN S ELSE Reach(nxt, E)

ConnectedComponents(E) == {Reach({i}, E) : i \in Touched(E)}

\* forgets the edges that exist only through a prior
GraphEdgesWithoutPriors(rot, trans, priors) ==
    {k \in DOMAIN rot : rot[k] # None \/ trans[k] # None}

\* asks for both estimates where either one makes an edge
GraphEdgesBothEstimates(rot, trans, priors) ==
    {k \in DOMAIN rot : (rot[k] # None /\ trans[k] # None) \/ k \in priors}

\* a pair key is an edge iff it has an estimate in either mapping or a prior
GraphEdges(rot, trans, priors) ==
    {k \in DOMAIN rot : rot[k] # None \/ trans[k] # None \/ k \in priors}

\* forgets the size criterion: the component of the lowest image index
FirstComponent(E) ==
    IF E = {} THEN {} ELSE Reach({MinOf(Touched(E))}, E)

\* keeps every component that ties for the most images
AllLargestComponents(E) ==
    LET cs == ConnectedComponents(E)
    IN  UNION {c \in cs : \A d \in cs : Cardinality(d) <= Cardinality(c)}

\* breaks a tie towards the highest image index
LargestComponentHighestIndex(E) ==
    IF E = {} THEN {}
    ELSE LET cs == ConnectedComponents(E)
             big == {c \in cs : \A d \in cs : Cardinality(d) <= Cardinality(c)}
         IN  CHOOSE c \in big : \A d \in big : MinOf(c) >= MinOf(d)

\* the component with the most images; ties go to the lowest image index
LargestComponent(E) ==
    IF E = {} THEN {}
    ELSE LET cs == ConnectedComponents(E)
             big == {c \in cs : \A d \in cs : Cardinality(d) <= Cardinality(c)}
         IN  CHOOSE c \in big : \A d \in big : MinOf(c) <= MinOf(d)

\* the edges whose both endpoints lie in the surviving component
SelectEdges(E, comp) == {k \in E : Endpoints(k) \subseteq comp}

\* hands the input back when the pair graph has no edge
prune_unless_no_edges(rot, trans, priors) ==
    LET E    == GraphEdges(rot, trans, priors)
        keep == SelectEdges(E, LargestComponent(E))
    IN  IF E = {} THEN <<rot, trans>>
        ELSE <<Restrict(rot, keep), Restrict(trans, keep)>>

prune_to_largest_connected_component(rot, trans, priors) ==
    LET E    == GraphEdges(rot, trans, priors)
        keep == SelectEdges(E, LargestComponent(E))
    IN  <<Restrict(rot, keep), Restrict(trans, keep)>>

(***************************************************************************)
(* SpecPrune: the pruner applied to every pair-estimate input within the   *)
(* bounds. The inputs are built one pair at a time; pruning is then called *)
(* as MultiViewOptimizer.create_computation_graph calls it.                *)
(***************************************************************************)
NotPruned == [called |-> FALSE, i2Ri1 |-> <<>>, i2Ui1 |-> <<>>]

PruneIdle ==
    /\ i2Ri1_graph = <<>>
    /\ i2Ui1_graph = <<>>
    /\ relative_pose_priors = {}
    /\ pruned = NotPruned

\* the order in which image_pair_indices lists the pairs
PairLess(a, b) == a[1] < b[1] \/ (a[1] = b[1] /\ a[2] < b[2])

Extend(f, k, v) == [x \in (DOMAIN f) \cup {k} |-> IF x = k THEN v ELSE f[x]]

\* one more candidate pair with its (possibly absent) estimates and prior
AddPair(k, r, u, hasPrior) ==
    /\ ~pruned.called
    /\ \A x \in DOMAIN i2Ri1_graph : PairLess(x, k)
    /\ Cardinality(DOMAIN i2Ri1_graph) < MaxPairs
    /\ i2Ri1_graph' = Extend(i2Ri1_graph, k, r)
    /\ i2Ui1_graph' = Extend(i2Ui1_graph, k, u)
    /\ relative_pose_priors' = IF hasPrior THEN relative_pose_priors \cup {k}
                               ELSE relative_pose_priors
    /\ UNCHANGED <<pruned, graphVars, reportVars, compareVars, mvsVars, cameraVars>>

\* the pruning node: the pruner applied to the materialized estimate mappings
\* and to the relative pose priors
PrunedGraphs ==
    LET out == prune_to_largest_connected_component(
                   i2Ri1_graph, i2Ui1_graph, relative_pose_priors)
    IN  [called |-> TRUE, i2Ri1 |-> out[1], i2Ui1 |-> out[2]]

PruneCall ==
    /\ ~pruned.called
    /\ pruned' = PrunedGraphs
    /\ UNCHANGED <<i2Ri1_graph, i2Ui1_graph, relative_pose_priors, graphVars,
                   reportVars, compareVars, mvsVars, cameraVars>>

\* the state of the part of the model a specification does not exercise
GraphIdle ==
    /\ entry = "none"
    /\ image_pair_indices = {}
    /\ use_pose_slam = FALSE
    /\ save_viz = FALSE
    /\ pc = "start"
    /\ status = <<>>
    /\ requested = {}
    /\ needed = {}
    /\ result = "none"
    /\ rot_avg_in = <<>>
    /\ trans_avg_in = <<>>

NotSaved == [called |-> FALSE, raised |-> FALSE, metrics_list |-> <<>>,
             written |-> {}]

ReportIdle ==
    /\ two_view_report_dict = <<>>
    /\ insertion_order = <<>>
    /\ frontend_metrics = NotSaved

\* no geometry comparison has been called
NotCalled == [state |-> "ready", value |-> FALSE, align_calls |-> 0,
              estimated |-> FALSE, out |-> <<>>]

CompareIdle ==
    cmp = [fn |-> "none", a |-> <<>>, b |-> <<>>, aSb |-> <<>>, res |-> NotCalled]

\* init_cameras has not been called
NoCameras == [called |-> FALSE, raised |-> FALSE, cams |-> <<>>]

CameraIdle ==
    /\ delayed_wRi = <<>>
    /\ wTi_list = <<>>
    /\ all_intrinsics = <<>>
    /\ cameras = NoCameras

\* no pairwise scores have been handed over
MvsIdle ==
    mvs = [pairs |-> <<>>, nviews |-> 0, called |-> FALSE, data |-> <<>>,
           built |-> FALSE, metas |-> <<>>]

InitPrune ==
    PruneIdle /\ GraphIdle /\ ReportIdle /\ CompareIdle /\ CameraIdle /\ MvsIdle

NextPrune ==
    \/ \E k \in AllPairs, r \in {None, "Rot3"}, u \in {None, "Unit3"}, hp \in BOOLEAN :
           AddPair(k, r, u, hp)
    \/ PruneCall

SpecPrune == InitPrune /\ [][NextPrune]_vars

(***************************************************************************)
(* Properties of pruning, stated on the inputs and on what was returned,   *)
(* without reference to how the pruner computes it.                        *)
(***************************************************************************)
\* the edges of the input pair graph
InputEdgeKeys ==
    {k \in DOMAIN i2Ri1_graph :
        \/ i2Ri1_graph[k] # None
        \/ i2Ui1_graph[k] # None
        \/ k \in relative_pose_priors}

\* the edges pruning returned
OutputKeys == (DOMAIN pruned.i2Ri1) \cup (DOMAIN pruned.i2Ui1)

\* b can be reached from a over the edges E
Connected(a, b, E) == b \in Reach({a}, E)

\* C1: the edges returned by pruning form one connected graph: any two images
\* touched by an output edge reach each other over output edges only.
C1_PrunedGraphIsConnected ==
    pruned.called =>
        \A a \in Touched(OutputKeys) : \A b \in Touched(OutputKeys) :
            Connected(a, b, OutputKeys)

\* pruning acted on a disconnected input and kept something
C1_Witness ==
    /\ pruned.called
    /\ Cardinality(ConnectedComponents(InputEdgeKeys)) >= 2
    /\ Cardinality(OutputKeys) >= 2
    /\ \E k \in DOMAIN i2Ri1_graph : i2Ri1_graph[k] = None /\ k \in OutputKeys

\* C2: the output is exactly the input restricted to the surviving component:
\* that component is a component of the input graph, every input edge inside
\* it is returned with its estimates unchanged, and nothing else is returned.
C2_OutputIsInputRestrictedToComponent ==
    pruned.called =>
        LET surviving == Touched(OutputKeys)
        IN  /\ surviving \in ConnectedComponents(InputEdgeKeys) \cup {{}}
            /\ DOMAIN pruned.i2Ri1 = DOMAIN pruned.i2Ui1
            /\ OutputKeys = {k \in InputEdgeKeys : Endpoints(k) \subseteq surviving}
            /\ \A k \in OutputKeys :
                   /\ pruned.i2Ri1[k] = i2Ri1_graph[k]
                   /\ pruned.i2Ui1[k] = i2Ui1_graph[k]

\* an edge of the surviving component is held by a prior alone, and an edge
\* outside the component is dropped
C2_Witness ==
    /\ pruned.called
    /\ \E k \in OutputKeys : i2Ri1_graph[k] = None /\ i2Ui1_graph[k] = None
    /\ Cardinality(OutputKeys) >= 2
    /\ OutputKeys # InputEdgeKeys

\* C3: the surviving component has the most images: no component of the input
\* graph has more images than the output touches, and the input edges
\* {(0,1),(1,2),(3,4)} yield {(0,1),(1,2)}.
C3_SurvivorHasMostImages ==
    pruned.called =>
        /\ \A c \in ConnectedComponents(InputEdgeKeys) :
               Cardinality(c) <= Cardinality(Touched(OutputKeys))
        /\ InputEdgeKeys = {<<0, 1>>, <<1, 2>>, <<3, 4>>}
               => OutputKeys = {<<0, 1>>, <<1, 2>>}

\* the larger component is not the one of the lowest image index
C3_Witness ==
    /\ pruned.called
    /\ InputEdgeKeys = {<<0, 1>>, <<2, 3>>, <<3, 4>>}
    /\ OutputKeys = {<<2, 3>>, <<3, 4>>}

\* the components of the input pair graph that have the most images
TiedComponents ==
    LET cs == ConnectedComponents(InputEdgeKeys)
    IN  {c \in cs : \A d \in cs : Cardinality(d) <= Cardinality(c)}

\* C16: when two or more connected components tie for the most images,
\* pruning keeps the one that contains the lowest image index.
C16_TieGoesToLowestImageIndex ==
    (pruned.called /\ Cardinality(TiedComponents) >= 2) =>
        /\ MinOf(UNION TiedComponents) \in Touched(OutputKeys)
        /\ Touched(OutputKeys) \in TiedComponents

\* components {1,2} and {3,4} tied and the edge (1,2) was kept
C16_Witness ==
    /\ pruned.called
    /\ InputEdgeKeys = {<<1, 2>>, <<3, 4>>}
    /\ OutputKeys = {<<1, 2>>}

\* C17: pruning does not fail on an input without edges: for mappings with
\* no entry, or whose estimates are all None with no prior, both returned
\* mappings are empty.
C17_NoEdgesGiveEmptyMappings ==
    (pruned.called /\ InputEdgeKeys = {}) =>
        /\ DOMAIN pruned.i2Ri1 = {}
        /\ DOMAIN pruned.i2Ui1 = {}

\* pruning returned empty mappings for two pairs whose estimates are all None
C17_Witness ==
    /\ pruned.called
    /\ Cardinality(DOMAIN i2Ri1_graph) = 2
    /\ \A k \in DOMAIN i2Ri1_graph :
           /\ i2Ri1_graph[k] = None
           /\ i2Ui1_graph[k] = None
           /\ k \notin relative_pose_priors
    /\ pruned.i2Ri1 = <<>>
    /\ pruned.i2Ui1 = <<>>

\* the pair has an estimate in either mapping or a prior
HasEstimateOrPrior(k) ==
    \/ i2Ri1_graph[k] # None
    \/ i2Ui1_graph[k] # None
    \/ k \in relative_pose_priors

\* C18: a pair key is an edge of the graph the components are computed on
\* iff it has a non-None rotation, a non-None direction or a prior: only such
\* keys are returned, every such key makes a component of its two images,
\* and every such key that touches the surviving component is part of it,
\* a pair held by a prior alone included.
C18_EdgeIffEstimateOrPrior ==
    pruned.called =>
        /\ \A k \in OutputKeys : HasEstimateOrPrior(k)
        /\ \A k \in DOMAIN i2Ri1_graph :
               HasEstimateOrPrior(k) =>
                   /\ Cardinality(Touched(OutputKeys)) >= 2
                   /\ Endpoints(k) \cap Touched(OutputKeys) # {} => k \in OutputKeys

\* a pair with a prior and no estimate joins a pair that has a rotation only
\* and a pair that has a direction only into the surviving component
C18_Witness ==
    /\ pruned.called
    /\ Cardinality(OutputKeys) = 3
    /\ \E k \in OutputKeys :
           /\ i2Ri1_graph[k] = None /\ i2Ui1_graph[k] = None
           /\ \E a \in OutputKeys \ {k}, b \in OutputKeys \ {k} :
                  /\ a # b
                  /\ Endpoints(a) \cap Endpoints(b) = {}
                  /\ i2Ri1_graph[a] # None /\ i2Ui1_graph[a] = None
                  /\ i2Ri1_graph[b] = None /\ i2Ui1_graph[b] # None


(***************************************************************************)
(* Graph construction (SceneOptimizer.create_computation_graph and         *)
(* MultiViewOptimizer.create_computation_graph) and the execution of the   *)
(* constructed graph by the engine. A node is <<kind, a, b>>: a and b are  *)
(* the image indices of a per-image or per-pair node, -1 otherwise.        *)
(***************************************************************************)
\* how far apart the two images of a candidate pair may be
MaxLookahead == 1

\* the candidate pairs a scene may have
CandidatePairs == {p \in AllPairs : p[2] - p[1] <= MaxLookahead}

StageNode(kind) == <<kind, -1, -1>>
FeatureNode(i) == <<"feature_extractor", i, -1>>
TwoViewNode(p) == <<"two_view_estimator", p[1], p[2]>>
CorrespondenceVizNode(p) == <<"save_twoview_correspondences_viz", p[1], p[2]>>
FrontendJoinNode == StageNode("frontend_join")

TwoViewNodes == {TwoViewNode(p) : p \in image_pair_indices}

\* scene_optimizer.py:176-187: a correspondence visualization is wired for a
\* pair only when _save_two_view_correspondences_viz is set
CorrespondenceVizNodes ==
    IF save_viz THEN {CorrespondenceVizNode(p) : p \in image_pair_indices}
    ELSE {}

\* scene_optimizer.py:134-137 and 148-194: the nodes wired before the
\* multi-view stage is called
FrontendNodes ==
    {FeatureNode(i) : i \in Images} \cup TwoViewNodes
    \cup CorrespondenceVizNodes
    \cup {FrontendJoinNode}

\* the global pose initialization of the configured path
PoseNode == IF use_pose_slam THEN StageNode("pose_slam")
            ELSE StageNode("translation_averaging")

\* wires both initialization paths whatever the configuration
BothPathsNodes ==
    {StageNode("pose_slam"), StageNode("rotation_averaging"),
     StageNode("translation_averaging")}

\* multi_view_optimizer.py:77-100: the averaging nodes of the configured path
AveragingNodes ==
    IF use_pose_slam THEN {StageNode("pose_slam")}
    ELSE {StageNode("rotation_averaging"), StageNode("translation_averaging")}

\* multi_view_optimizer.py:72-123: the nodes the multi-view stage wires
MultiViewNodes ==
    {StageNode("prune")} \cup AveragingNodes
    \cup {StageNode("init_cameras"), StageNode("data_association"),
          StageNode("bundle_adjustment"), StageNode("align_ba_input")}

\* the lifecycle checkpoints of the two-view reports (scene_optimizer.py:143-147)
ReportTags == 0 .. 2

\* scene_optimizer.py:219-236: per checkpoint, the persistence of the reports
\* and the summary of them
ReportNodes ==
    {<<"save_full_frontend_metrics", t, -1>> : t \in ReportTags}
    \cup {<<"aggregate_frontend_metrics", t, -1>> : t \in ReportTags}

\* scene_optimizer.py:318-344 and 347-377: the 3D visualizations and the
\* scene-data exports, one node per destination
SceneSaveNodes ==
    {<<"save_sfm_data_viz", d, -1>> : d \in 0 .. 1}
    \cup {StageNode("save_camera_poses_viz")}
    \cup {<<"export_model_as_colmap_text", d, io>> : d \in 0 .. 1, io \in 0 .. 1}

\* scene_optimizer.py:380-406: metrics as JSON (two destinations) and as HTML
MetricsSaveNodes ==
    {<<"save_metrics_as_json", d, -1>> : d \in 0 .. 1}
    \cup {StageNode("generate_metrics_report_html")}

\* the nodes whose value the caller never sees
SideEffectNodes ==
    CorrespondenceVizNodes
    \cup {<<"save_full_frontend_metrics", t, -1>> : t \in ReportTags}
    \cup SceneSaveNodes \cup MetricsSaveNodes

\* scene_optimizer.py:219-285: the nodes wired after the multi-view stage
\* (3D visualization and scene-data export on, no dense optimizer: the
\* defaults of SceneOptimizer.__init__)
BackendNodes ==
    ReportNodes
    \cup {StageNode("align_estimated_gtsfm_data"),
          <<"align_via_Sim3_to_poses", 0, -1>>,
          <<"align_via_Sim3_to_poses", 1, -1>>}
    \cup SceneSaveNodes \cup MetricsSaveNodes \cup {StageNode("output_join")}

\* a verification handed the keypoints of every image
TwoViewInputsAllFeatures(n) ==
    IF entry = "SceneOptimizer" THEN {FeatureNode(i) : i \in Images} ELSE {}

\* scene_optimizer.py:153-166: the verification of a pair is handed the
\* keypoints and descriptors of its two images; called by itself the
\* multi-view stage is handed the estimates as deferred values
TwoViewInputs(n) ==
    IF entry = "SceneOptimizer" THEN {FeatureNode(n[2]), FeatureNode(n[3])} ELSE {}

\* bundle adjustment handed the estimate aligned to the ground truth
AlignedBundleAdjustmentInput == StageNode("align_ba_input")

\* multi_view_optimizer.py:113-115: bundle adjustment is handed the estimate
\* data association returned
BundleAdjustmentInput == StageNode("data_association")

\* the dependencies of a node: the nodes whose values it is called with
Deps(n) ==
    CASE n[1] = "feature_extractor" -> {}
      [] n[1] = "two_view_estimator" -> TwoViewInputs(n)
      [] n[1] = "save_twoview_correspondences_viz" ->
            {FeatureNode(n[2]), FeatureNode(n[3]), TwoViewNode(<<n[2], n[3]>>)}
      [] n[1] = "frontend_join" ->
            {FeatureNode(i) : i \in Images} \cup CorrespondenceVizNodes
      [] n[1] = "prune" -> TwoViewNodes
      [] n[1] = "rotation_averaging" -> {StageNode("prune")}
      [] n[1] = "translation_averaging" ->
            {StageNode("prune"), StageNode("rotation_averaging")}
      [] n[1] = "pose_slam" -> {}
      [] n[1] = "init_cameras" -> {PoseNode}
      [] n[1] = "data_association" ->
            {StageNode("init_cameras")} \cup TwoViewNodes
            \cup (IF entry = "SceneOptimizer" THEN {FrontendJoinNode} ELSE {})
      [] n[1] = "bundle_adjustment" -> {BundleAdjustmentInput}
      [] n[1] = "align_ba_input" -> {StageNode("data_association")}
      [] n[1] \in {"save_full_frontend_metrics", "aggregate_frontend_metrics"} ->
            TwoViewNodes
      [] n[1] = "align_estimated_gtsfm_data" ->
            {StageNode("align_ba_input"), StageNode("bundle_adjustment")}
      [] n[1] = "align_via_Sim3_to_poses" ->
            {StageNode("align_estimated_gtsfm_data")}
      [] n[1] = "save_sfm_data_viz" -> {<<"align_via_Sim3_to_poses", n[2], -1>>}
      [] n[1] = "save_camera_poses_viz" ->
            {<<"align_via_Sim3_to_poses", 0, -1>>,
             <<"align_via_Sim3_to_poses", 1, -1>>,
             StageNode("align_estimated_gtsfm_data")}
      [] n[1] = "export_model_as_colmap_text" ->
            {StageNode("align_estimated_gtsfm_data")}
      [] n[1] \in {"save_metrics_as_json", "generate_metrics_report_html"} ->
            {<<"aggregate_frontend_metrics", t, -1>> : t \in ReportTags}
            \cup AveragingNodes
            \cup {StageNode("data_association"), StageNode("bundle_adjustment")}
      [] n[1] = "output_join" ->
            {StageNode("align_estimated_gtsfm_data")}
            \cup {<<"save_full_frontend_metrics", t, -1>> : t \in ReportTags}
            \cup SceneSaveNodes \cup MetricsSaveNodes
      [] OTHER -> {}

\* hands the pre-refinement estimate out as the refined one
ReturnedNodesInputForResult(what) ==
    CASE what = "metrics" ->
            AveragingNodes \cup {StageNode("data_association"),
                                 StageNode("bundle_adjustment")}
      [] what = "result" -> {StageNode("output_join")}
      [] OTHER -> {StageNode("align_ba_input")}

\* multi_view_optimizer.py:125: the three values the multi-view stage returns
\* and the nodes each one is made of; scene_optimizer.py:281-285: the one
\* value SceneOptimizer returns
ReturnedNodes(what) ==
    CASE what = "ba_input" -> {StageNode("align_ba_input")}
      [] what = "result" -> {StageNode("output_join")}
      [] what = "ba_result" -> {StageNode("bundle_adjustment")}
      [] what = "metrics" ->
            AveragingNodes \cup {StageNode("data_association"),
                                 StageNode("bundle_adjustment")}

\* the nodes the engine has to run for a set of nodes: their ancestors
RECURSIVE Ancestors(_)
Ancestors(S) ==
    LET nxt == S \cup UNION {Deps(n) : n \in S}
    IN  IF nxt = S THEN S ELSE Ancestors(nxt)

\* the engine culls the graph to what the requested values depend on
NeededFor(req) == Ancestors(UNION {ReturnedNodes(w) : w \in req})

\* the engine may start a node once each of its dependencies has a value
Ready(n) ==
    /\ result = "pending"
    /\ n \in needed
    /\ status[n] = "pending"
    /\ \A d \in Deps(n) : status[d] = "done"

Finish(n, ok) ==
    status' = [status EXCEPT ![n] = IF ok THEN "done" ELSE "failed"]

(***************************************************************************)
(* The call of the multi-view stage at scene_optimizer.py:197-215 against  *)
(* the signature at multi_view_optimizer.py:38-51.                         *)
(***************************************************************************)
\* positional arguments SceneOptimizer passes (scene_optimizer.py:203-214)
NumArgsPassed == 12
\* parameters MultiViewOptimizer.create_computation_graph declares besides
\* self, the defaulted images_graph included (multi_view_optimizer.py:40-50)
NumParamsDeclared == 11
\* values SceneOptimizer unpacks from the call (scene_optimizer.py:197-202)
NumValuesUnpacked == 4
\* values the multi-view stage returns (multi_view_optimizer.py:125)
NumValuesReturned == 3

\* what each positional argument of the call holds, in the order passed
\* (scene_optimizer.py:203-214)
ArgsPassed ==
    <<"images", "num_images", "keypoints", "relative_rotations",
      "relative_directions", "correspondences", "intrinsics",
      "absolute_pose_priors", "relative_pose_priors", "two_view_reports",
      "gt_cameras", "gt_poses">>
\* what each declared parameter holds, in the order declared
\* (multi_view_optimizer.py:40-50)
ParamsDeclared ==
    <<"num_images", "keypoints", "relative_rotations", "relative_directions",
      "correspondences", "intrinsics", "absolute_pose_priors",
      "relative_pose_priors", "gt_cameras", "gt_poses", "images">>

\* Python binds the call iff no more positional arguments are passed than
\* parameters are declared, and unpacks iff the counts agree
CallBinds == NumArgsPassed <= NumParamsDeclared
UnpackSucceeds == NumValuesUnpacked = NumValuesReturned

(***************************************************************************)
(* init_cameras (multi_view_optimizer.py:128-143). A calibration is        *)
(* <<class, id>>; a camera is a record of its class, pose and calibration. *)
(***************************************************************************)
\* gtsfm_types.get_camera_class_for_calibration: the camera class that goes
\* with the class of a calibration
get_camera_class_for_calibration(calibration) == <<"PinholeCamera", calibration[1]>>

camera_class(cls, wTi, calibration) ==
    [class |-> cls, pose |-> wTi, calibration |-> calibration]

\* the image indices (from 0) whose pose is not None
PosedIndices(poses) == {i - 1 : i \in {j \in 1 .. Len(poses) : poses[j] # None}}

\* builds every camera from the first calibration
init_cameras_first_intrinsics(poses, intrinsics_list) ==
    IF Len(intrinsics_list) = 0
    THEN [called |-> TRUE, raised |-> TRUE, cams |-> <<>>]
    ELSE [called |-> TRUE, raised |-> FALSE,
          cams |-> [idx \in PosedIndices(poses) |->
                       camera_class(get_camera_class_for_calibration(intrinsics_list[1]),
                                    poses[idx + 1], intrinsics_list[1])]]

\* multi_view_optimizer.py:142-143; intrinsics_list[0] of an empty list and
\* intrinsics_list[idx] past its end raise IndexError
init_cameras(poses, intrinsics_list) ==
    IF Len(intrinsics_list) = 0
       \/ \E idx \in PosedIndices(poses) : idx + 1 > Len(intrinsics_list)
    THEN [called |-> TRUE, raised |-> TRUE, cams |-> <<>>]
    ELSE [called |-> TRUE, raised |-> FALSE,
          cams |-> [idx \in PosedIndices(poses) |->
                       camera_class(get_camera_class_for_calibration(intrinsics_list[1]),
                                    poses[idx + 1], intrinsics_list[idx + 1])]]

(***************************************************************************)
(* Construction.                                                           *)
(***************************************************************************)
\* wiring that runs pruning on the spot
PruneRunAtOnce(S) ==
    [n \in S |-> IF n = StageNode("prune") THEN "done" ELSE "pending"]

\* dask.delayed(f)(...) creates a node and runs nothing
AllPending(S) == [n \in S |-> "pending"]
Delayed == "Delayed"

\* scene_optimizer.py:128-194: feature extraction per image, two-view
\* estimation per pair, the optional correspondence visualizations, and the
\* join that makes the keypoints depend on the visualizations
SceneBuildFrontend ==
    /\ entry = "SceneOptimizer"
    /\ pc = "start"
    /\ pc' = "frontend_wired"
    /\ status' = AllPending(FrontendNodes)
    /\ i2Ri1_graph' = [p \in image_pair_indices |-> Delayed]
    /\ i2Ui1_graph' = [p \in image_pair_indices |-> Delayed]
    /\ UNCHANGED <<reportVars, compareVars, mvsVars, cameraVars,
                   relative_pose_priors, pruned, entry, image_pair_indices,
                   use_pose_slam, save_viz, requested, needed, result, rot_avg_in,
                   trans_avg_in>>

\* scene_optimizer.py:197-215: the call raises TypeError unless it binds and
\* its result unpacks; no node is returned to the caller then
SceneCallMultiView ==
    /\ entry = "SceneOptimizer"
    /\ pc = "frontend_wired"
    /\ pc' = IF CallBinds /\ UnpackSucceeds THEN "returned" ELSE "raised"
    /\ status' = IF CallBinds /\ UnpackSucceeds
                 THEN AllPending(FrontendNodes \cup MultiViewNodes \cup BackendNodes)
                 ELSE status
    /\ UNCHANGED <<reportVars, compareVars, mvsVars, cameraVars,
                   pruneVars, entry, image_pair_indices, use_pose_slam,
                   save_viz, requested, needed, result, rot_avg_in, trans_avg_in>>

\* every argument lands on the parameter that holds the same input
ArgsInDeclaredOrder ==
    /\ Len(ArgsPassed) <= Len(ParamsDeclared)
    /\ \A i \in 1 .. Len(ArgsPassed) : ArgsPassed[i] = ParamsDeclared[i]

\* C30: SceneOptimizer's call into the multi-view stage conforms to
\* MultiViewOptimizer.create_computation_graph: it passes exactly the inputs
\* the operation declares, in its order (num_images first), and unpacks
\* exactly the triple it returns, so for every number of images and every
\* candidate pair set graph construction completes and never raises.
C30_CallConformsToMultiViewStage ==
    (entry = "SceneOptimizer" /\ pc \notin {"start", "frontend_wired"}) =>
        /\ Len(ArgsPassed) = NumArgsPassed
        /\ ArgsInDeclaredOrder
        /\ ArgsPassed[1] = "num_images"
        /\ CallBinds
        /\ UnpackSucceeds
        /\ pc = "returned"

\* multi_view_optimizer.py:72-125, called by itself: the caller supplies the
\* per-pair estimates as deferred values
MultiViewBuild ==
    /\ entry = "MultiViewOptimizer"
    /\ pc = "start"
    /\ pc' = "returned"
    /\ status' = AllPending(TwoViewNodes \cup MultiViewNodes)
    /\ UNCHANGED <<reportVars, compareVars, mvsVars, cameraVars,
                   pruneVars, entry, image_pair_indices, use_pose_slam,
                   save_viz, requested, needed, result, rot_avg_in, trans_avg_in>>

(***************************************************************************)
(* Execution: the caller materializes returned nodes; the engine runs the  *)
(* nodes they need in any order the dependencies allow.                    *)
(***************************************************************************)
\* what a caller may ask for: of the multi-view stage the refined estimate,
\* the pre-refinement estimate or all three values; of SceneOptimizer the one
\* node it returns
Requests ==
    IF entry = "SceneOptimizer" THEN {{"result"}}
    ELSE {{"ba_result"}, {"ba_input"}, {"ba_input", "ba_result", "metrics"}}

Compute(req) ==
    /\ pc = "returned"
    /\ result = "none"
    /\ requested' = req
    /\ needed' = NeededFor(req)
    /\ result' = "pending"
    /\ UNCHANGED <<reportVars, compareVars, mvsVars, cameraVars,
                   pruneVars, entry, image_pair_indices, use_pose_slam,
                   save_viz, pc, status, rot_avg_in, trans_avg_in>>

\* the verification of one pair: both estimates, or none when it failed
RunTwoView(p, ok) ==
    /\ Ready(TwoViewNode(p))
    /\ Finish(TwoViewNode(p), TRUE)
    /\ i2Ri1_graph' = [i2Ri1_graph EXCEPT ![p] = IF ok THEN "Rot3" ELSE None]
    /\ i2Ui1_graph' = [i2Ui1_graph EXCEPT ![p] = IF ok THEN "Unit3" ELSE None]
    /\ UNCHANGED <<reportVars, compareVars, mvsVars, cameraVars,
                   relative_pose_priors, pruned, entry, image_pair_indices,
                   use_pose_slam, save_viz, pc, requested, needed, result, rot_avg_in,
                   trans_avg_in>>

\* multi_view_optimizer.py:73-75
RunPrune ==
    /\ Ready(StageNode("prune"))
    /\ Finish(StageNode("prune"), TRUE)
    /\ pruned' = PrunedGraphs
    /\ UNCHANGED <<reportVars, compareVars, mvsVars, cameraVars,
                   i2Ri1_graph, i2Ui1_graph, relative_pose_priors, entry,
                   image_pair_indices, use_pose_slam, save_viz, pc, requested,
                   needed, result, rot_avg_in, trans_avg_in>>

\* passes the estimates as they came from verification
UnprunedRotations == i2Ri1_graph

\* multi_view_optimizer.py:85-87: the rotations rotation averaging is given
RotationAveragingInput == pruned.i2Ri1

\* passes the directions as they came from verification
UnprunedDirections == i2Ui1_graph

\* multi_view_optimizer.py:89-96: the directions translation averaging is given
TranslationAveragingInput == pruned.i2Ui1

\* what an estimator recovers of the images it could: all, or all but one
Recoverable(S) == {S} \cup {S \ {i} : i \in S}

\* a per-image list holding a value for the images of S and None elsewhere
PerImage(S, value) == [i \in 1 .. NumImages |-> IF i - 1 \in S THEN value ELSE None]

\* the images a per-image list holds a value for
Recovered(l) == {i \in Images : i + 1 \in DOMAIN l /\ l[i + 1] # None}

\* rotation averaging (a collaborator): a rotation for images of the pair
\* graph it is given
RunRotationAveraging(ok) ==
    /\ Ready(StageNode("rotation_averaging"))
    /\ Finish(StageNode("rotation_averaging"), ok)
    /\ rot_avg_in' = RotationAveragingInput
    /\ \E S \in Recoverable(Touched(DOMAIN RotationAveragingInput)) :
           delayed_wRi' = IF ok THEN PerImage(S, "Rot3") ELSE delayed_wRi
    /\ UNCHANGED <<reportVars, compareVars, mvsVars, wTi_list, all_intrinsics, cameras,
                   pruneVars, entry, image_pair_indices, use_pose_slam,
                   save_viz, pc, requested, needed, result, trans_avg_in>>

\* translation averaging (a collaborator): a pose for images that have a
\* rotation
RunTranslationAveraging(ok) ==
    /\ Ready(StageNode("translation_averaging"))
    /\ Finish(StageNode("translation_averaging"), ok)
    /\ trans_avg_in' = TranslationAveragingInput
    /\ \E S \in Recoverable(Recovered(delayed_wRi)) :
           wTi_list' = IF ok THEN PerImage(S, "Pose3") ELSE wTi_list
    /\ UNCHANGED <<reportVars, compareVars, mvsVars, delayed_wRi, all_intrinsics, cameras,
                   pruneVars, entry, image_pair_indices, use_pose_slam,
                   save_viz, pc, requested, needed, result, rot_avg_in>>

\* the stages that consume no pair estimate directly: pose-graph
\* initialization, camera instantiation, data association, bundle adjustment
\* and the alignment of the pre-refinement estimate
OtherStages == {"pose_slam", "init_cameras", "data_association",
                "bundle_adjustment", "align_ba_input"}

\* multi_view_optimizer.py:142-143: init_cameras raises exactly when it
\* indexes the intrinsics past their end
MustRaise(kind) ==
    kind = "init_cameras" /\ init_cameras(wTi_list, all_intrinsics).raised

\* the stages that may raise: the collaborators on any input, init_cameras
\* only on an index error
MayRaise(kind) == kind # "init_cameras" \/ MustRaise(kind)

\* multi_view_optimizer.py:78-80: what the pose-graph initializer is given
PoseSlamInput == relative_pose_priors

\* the pose-graph initializer (a collaborator) yields a pose for images of
\* the priors it is given; multi_view_optimizer.py:101: init_cameras is
\* called with the poses of the configured path and the intrinsics
RunStage(kind, ok) ==
    /\ kind \in OtherStages
    /\ IF ok THEN ~MustRaise(kind) ELSE MayRaise(kind)
    /\ Ready(StageNode(kind))
    /\ Finish(StageNode(kind), ok)
    /\ \E S \in Recoverable(Touched(PoseSlamInput)) :
           wTi_list' = IF kind = "pose_slam" /\ ok THEN PerImage(S, "Pose3")
                       ELSE wTi_list
    /\ cameras' = IF kind = "init_cameras"
                  THEN init_cameras(wTi_list, all_intrinsics) ELSE cameras
    /\ UNCHANGED <<reportVars, compareVars, mvsVars, delayed_wRi, all_intrinsics,
                   pruneVars, entry, image_pair_indices, use_pose_slam,
                   save_viz, pc, requested, needed, result, rot_avg_in, trans_avg_in>>

\* every needed node has a value: the caller gets what it asked for
ComputeReturns ==
    /\ result = "pending"
    /\ \A n \in needed : status[n] = "done"
    /\ result' = "returned"
    /\ UNCHANGED <<reportVars, compareVars, mvsVars, cameraVars,
                   pruneVars, entry, image_pair_indices, use_pose_slam,
                   save_viz, pc, status, requested, needed, rot_avg_in, trans_avg_in>>

\* a node raised: the engine re-raises its error to the caller
ComputeRaises ==
    /\ result = "pending"
    /\ \E n \in needed : status[n] = "failed"
    /\ result' = "raised"
    /\ UNCHANGED <<reportVars, compareVars, mvsVars, cameraVars,
                   pruneVars, entry, image_pair_indices, use_pose_slam,
                   save_viz, pc, status, requested, needed, rot_avg_in, trans_avg_in>>

Init ==
    /\ entry \in {"SceneOptimizer", "MultiViewOptimizer"}
    /\ image_pair_indices \in
           {S \in SUBSET CandidatePairs : Cardinality(S) <= MaxPairs}
    /\ relative_pose_priors \in
           {P \in SUBSET image_pair_indices : Cardinality(P) <= 1}
    /\ use_pose_slam \in BOOLEAN
    /\ save_viz \in (IF entry = "SceneOptimizer" THEN BOOLEAN ELSE {FALSE})
    /\ i2Ri1_graph = (IF entry = "MultiViewOptimizer"
                      THEN [p \in image_pair_indices |-> Delayed] ELSE <<>>)
    /\ i2Ui1_graph = (IF entry = "MultiViewOptimizer"
                      THEN [p \in image_pair_indices |-> Delayed] ELSE <<>>)
    /\ pruned = NotPruned
    /\ pc = "start"
    /\ status = <<>>
    /\ requested = {}
    /\ needed = {}
    /\ result = "none"
    /\ rot_avg_in = <<>>
    /\ trans_avg_in = <<>>
    /\ ReportIdle
    /\ CompareIdle
    /\ MvsIdle
    /\ delayed_wRi = <<>>
    /\ wTi_list = <<>>
    /\ all_intrinsics = [i \in 1 .. NumImages |-> <<"Cal3Bundler", i>>]
    /\ cameras = NoCameras

Next ==
    \/ SceneBuildFrontend
    \/ SceneCallMultiView
    \/ MultiViewBuild
    \/ \E req \in Requests : Compute(req)
    \/ \E p \in image_pair_indices, ok \in BOOLEAN : RunTwoView(p, ok)
    \/ RunPrune
    \/ \E ok \in BOOLEAN : RunRotationAveraging(ok)
    \/ \E ok \in BOOLEAN : RunTranslationAveraging(ok)
    \/ \E kind \in OtherStages, ok \in BOOLEAN : RunStage(kind, ok)
    \/ ComputeReturns
    \/ ComputeRaises

Spec == Init /\ [][Next]_vars

\* the engine keeps running enabled steps: construction goes on to its end
\* and a node that is ready is eventually run
FairSpec == Spec /\ WF_vars(Next)

(***************************************************************************)
(* Properties of the constructed graph and of its execution.               *)
(***************************************************************************)
Ran(kind) ==
    /\ StageNode(kind) \in DOMAIN status
    /\ status[StageNode(kind)] # "pending"

\* the connected components of the pair graph with the most images
LargestInputComponents ==
    LET cs == ConnectedComponents(InputEdgeKeys)
    IN  {c \in cs : \A d \in cs : Cardinality(d) <= Cardinality(c)}

\* every key of the consumed mapping lies in one largest component and keeps
\* the estimate verification produced for it
OnlyFromLargestComponent(consumed, estimates) ==
    \/ DOMAIN consumed = {}
    \/ \E c \in LargestInputComponents :
           \A k \in DOMAIN consumed :
               /\ Endpoints(k) \subseteq c
               /\ k \in DOMAIN estimates
               /\ consumed[k] = estimates[k]

\* C4: every pair key whose rotation or direction is consumed by rotation or
\* translation averaging belongs to the largest connected component of the
\* pair graph, with the estimate verification produced: pairs outside are
\* absent, not defaulted.
C4_AveragingConsumesOnlyPrunedPairs ==
    /\ Ran("rotation_averaging") =>
           OnlyFromLargestComponent(rot_avg_in, i2Ri1_graph)
    /\ Ran("translation_averaging") =>
           OnlyFromLargestComponent(trans_avg_in, i2Ui1_graph)

\* both averaging stages ran on a graph from which pruning removed a verified
\* pair
C4_Witness ==
    /\ Ran("rotation_averaging")
    /\ Ran("translation_averaging")
    /\ DOMAIN rot_avg_in # {}
    /\ DOMAIN trans_avg_in # {}
    /\ \E k \in image_pair_indices :
           i2Ri1_graph[k] = "Rot3" /\ k \notin DOMAIN rot_avg_in

\* the whole-graph stages of the configured path
WholeGraphStages ==
    AveragingNodes \cup {StageNode("data_association"),
                         StageNode("bundle_adjustment")}

\* C6: if global averaging (or pose-graph initialization), data association
\* or bundle adjustment fails, materializing the result fails: a caller that
\* asked for the refined estimate gets a value only when each of those stages
\* produced one, and no value at all once any of them raised.
C6_StageFailureIsFatal ==
    /\ (result = "returned" /\ requested \cap {"ba_result", "result"} # {}) =>
           \A n \in WholeGraphStages : status[n] = "done"
    /\ (\E n \in WholeGraphStages \cap DOMAIN status : status[n] = "failed") =>
           result # "returned"

\* bundle adjustment raised after data association succeeded, and the caller
\* got the error instead of the pre-refinement estimate
C6_Witness ==
    /\ result = "raised"
    /\ "ba_result" \in requested
    /\ status[StageNode("data_association")] = "done"
    /\ status[StageNode("bundle_adjustment")] = "failed"

\* C7: SceneOptimizer.create_computation_graph returns one deferred node, and
\* every side-effect node created during construction has completed by the
\* time that node's value is produced.
C7_SideEffectsCompleteBeforeResult ==
    entry = "SceneOptimizer" =>
        /\ pc # "raised"
        /\ result = "returned" =>
               \A n \in SideEffectNodes \cap DOMAIN status : status[n] = "done"

\* every pair has been verified
AllVerified ==
    \A p \in image_pair_indices :
        /\ TwoViewNode(p) \in DOMAIN status
        /\ status[TwoViewNode(p)] = "done"

\* the images of the component pruning keeps for the verified estimates
SurvivingImages ==
    Touched(DOMAIN prune_to_largest_connected_component(
                       i2Ri1_graph, i2Ui1_graph, relative_pose_priors)[1])

\* C13: an image whose index lies outside the surviving component of the
\* pruned pair graph has global pose None after global pose estimation, and
\* no camera is instantiated for it.
C13_DroppedImagesHaveNoPose ==
    (AllVerified /\ PoseNode \in DOMAIN status /\ status[PoseNode] = "done") =>
        \A i \in Images \ SurvivingImages :
            /\ wTi_list[i + 1] = None
            /\ i \notin DOMAIN cameras.cams


Scheduled(kind) == StageNode(kind) \in DOMAIN status

\* C14: exactly one global-pose initialization path is wired per graph: with
\* pose-graph initialization configured neither averaging is scheduled;
\* otherwise rotation averaging and then translation averaging (which consumes
\* the averaged rotations) are scheduled and the pose-graph initializer is
\* not. Either path produces a per-image pose list and a metric group.
C14_ExactlyOnePoseInitializationPath ==
    (entry = "MultiViewOptimizer" /\ pc = "returned") =>
        /\ use_pose_slam =>
               /\ Scheduled("pose_slam")
               /\ ~Scheduled("rotation_averaging")
               /\ ~Scheduled("translation_averaging")
               /\ StageNode("pose_slam") \in ReturnedNodes("metrics")
               /\ Ran("pose_slam") /\ status[StageNode("pose_slam")] = "done" =>
                      Len(wTi_list) = NumImages
        /\ ~use_pose_slam =>
               /\ ~Scheduled("pose_slam")
               /\ Scheduled("rotation_averaging")
               /\ Scheduled("translation_averaging")
               /\ StageNode("rotation_averaging")
                      \in Deps(StageNode("translation_averaging"))
               /\ Ran("translation_averaging") =>
                      /\ status[StageNode("rotation_averaging")] = "done"
                      /\ Len(delayed_wRi) = NumImages
               /\ {StageNode("rotation_averaging"), StageNode("translation_averaging")}
                      \subseteq ReturnedNodes("metrics")
               /\ status[StageNode("translation_averaging")] = "done" =>
                      Len(wTi_list) = NumImages
        /\ \A n \in ReturnedNodes("metrics") : n \in DOMAIN status

\* on the averaging path translation averaging has produced the pose list
\* from the averaged rotations
C14_Witness ==
    /\ entry = "MultiViewOptimizer"
    /\ ~use_pose_slam
    /\ Scheduled("translation_averaging")
    /\ status[StageNode("translation_averaging")] = "done"
    /\ Len(wTi_list) = NumImages
    /\ Recovered(wTi_list) # {}
    /\ Recovered(wTi_list) \subseteq Recovered(delayed_wRi)


\* the pair has left 'pending' and is classified: failed, pruned out, or in
\* the global graph with the pose estimation over
PairTerminal(p) ==
    /\ TwoViewNode(p) \in DOMAIN status
    /\ status[TwoViewNode(p)] = "done"
    /\ \/ i2Ri1_graph[p] = None /\ i2Ui1_graph[p] = None
       \/ /\ pruned.called
          /\ \/ p \notin DOMAIN pruned.i2Ri1
             \/ status[PoseNode] # "pending"

\* a verification that has run is not run again
VerifiedOnce ==
    \A p \in image_pair_indices :
        (TwoViewNode(p) \in DOMAIN status /\ status[TwoViewNode(p)] # "pending") =>
            /\ status'[TwoViewNode(p)] = status[TwoViewNode(p)]
            /\ i2Ri1_graph'[p] = i2Ri1_graph[p]
            /\ i2Ui1_graph'[p] = i2Ui1_graph[p]

\* C15: each candidate pair of a scene handed to SceneOptimizer gets one
\* verification computation which is never run again, and under fair
\* scheduling every pair eventually leaves 'pending' and reaches a terminal
\* classification.
C15_EveryPairReachesTerminalState ==
    /\ [][VerifiedOnce]_vars
    /\ \A p \in CandidatePairs :
           [](entry = "SceneOptimizer" /\ p \in image_pair_indices =>
                  <>PairTerminal(p))


\* the computations of the multi-view stage: pruning, the configured pose
\* initialization, data association and bundle adjustment
MultiViewComputations ==
    {StageNode("prune")} \cup AveragingNodes
    \cup {StageNode("data_association"), StageNode("bundle_adjustment")}

\* the engine cannot start n before m has completed: n depends on m, directly
\* or through other nodes
CompletesBefore(m, n) == m \in Ancestors(Deps(n))

\* neither node depends on the other: the engine may run them at once
Concurrent(n1, n2) ==
    /\ n1 \notin Ancestors({n2})
    /\ n2 \notin Ancestors({n1})

\* C21: with correspondence visualization enabled, every per-pair
\* visualization task has completed before any computation of the multi-view
\* stage (pruning, averaging or pose-graph initialization, data association,
\* bundle adjustment) starts.
C21_VisualizationsBeforeMultiViewStage ==
    (entry = "SceneOptimizer" /\ save_viz /\ pc = "frontend_wired") =>
        \A p \in image_pair_indices :
            \A n \in MultiViewComputations :
                CompletesBefore(CorrespondenceVizNode(p), n)

\* a step that runs the verification of pair p touches no other pair
TwoViewStepIsLocal ==
    \A p \in image_pair_indices :
        (/\ TwoViewNode(p) \in DOMAIN status
         /\ status'[TwoViewNode(p)] # status[TwoViewNode(p)]) =>
            \A q \in image_pair_indices \ {p} :
                /\ status'[TwoViewNode(q)] = status[TwoViewNode(q)]
                /\ i2Ri1_graph'[q] = i2Ri1_graph[q]
                /\ i2Ui1_graph'[q] = i2Ui1_graph[q]

\* the verification node of each pair depends on the feature nodes of its
\* two images only, and neither two verification nodes nor two feature nodes
\* are connected by a dependency path
FrontendNodesIndependent ==
    (entry = "SceneOptimizer" /\ pc = "frontend_wired") =>
        /\ \A p \in image_pair_indices :
               /\ Deps(TwoViewNode(p)) = {FeatureNode(p[1]), FeatureNode(p[2])}
               /\ Ancestors({TwoViewNode(p)})
                      = {TwoViewNode(p), FeatureNode(p[1]), FeatureNode(p[2])}
               /\ \A q \in image_pair_indices \ {p} :
                      TwoViewNode(q) \notin Ancestors({TwoViewNode(p)})
        /\ \A i \in Images : Ancestors({FeatureNode(i)}) = {FeatureNode(i)}

\* C23: the verification node of pair (i1, i2) depends only on the
\* feature-extraction nodes of images i1 and i2; no dependency path connects
\* the verification nodes of two different pairs or the feature nodes of two
\* different images, and running one verification changes the result of no
\* other pair, so every interleaving yields the same per-pair results.
C23_PairVerificationsIndependent ==
    /\ []FrontendNodesIndependent
    /\ [][TwoViewStepIsLocal]_vars

\* two pairs sharing image 1 are wired with their feature nodes, neither
\* verification depending on the other
C23_Witness ==
    /\ entry = "SceneOptimizer"
    /\ pc = "frontend_wired"
    /\ {<<0, 1>>, <<1, 2>>} \subseteq image_pair_indices
    /\ {TwoViewNode(<<0, 1>>), TwoViewNode(<<1, 2>>), FeatureNode(1)} \subseteq DOMAIN status
    /\ FeatureNode(1) \in Deps(TwoViewNode(<<0, 1>>)) \cap Deps(TwoViewNode(<<1, 2>>))
    /\ Concurrent(TwoViewNode(<<0, 1>>), TwoViewNode(<<1, 2>>))

\* C24: building the computation graph executes no stage: once
\* create_computation_graph has returned, and all the while it builds, no
\* feature extraction, verification, pruning, averaging, data association,
\* bundle adjustment or persistence task has run; every node is pending until
\* a returned node is materialized.
C24_BuildingExecutesNothing ==
    result = "none" =>
        /\ \A n \in DOMAIN status : status[n] = "pending"
        /\ \A p \in DOMAIN i2Ri1_graph :
               i2Ri1_graph[p] = Delayed /\ i2Ui1_graph[p] = Delayed
        /\ ~pruned.called
        /\ rot_avg_in = <<>> /\ trans_avg_in = <<>>
        /\ delayed_wRi = <<>> /\ wTi_list = <<>>
        /\ ~cameras.called
        /\ ~frontend_metrics.called

\* the multi-view stage has returned its graph for two pairs and nothing has
\* been materialized: every stage is wired and pending
C24_Witness ==
    /\ entry = "MultiViewOptimizer"
    /\ pc = "returned"
    /\ result = "none"
    /\ Cardinality(image_pair_indices) = 2
    /\ TwoViewNodes \cup MultiViewNodes \subseteq DOMAIN status
    /\ status[StageNode("prune")] = "pending"
    /\ status[StageNode("bundle_adjustment")] = "pending"

\* the nodes whose value is aligned to the ground-truth poses by Sim(3)
\* (multi_view_optimizer.py:123, scene_optimizer.py:334-335)
GTAlignedNodes ==
    {StageNode("align_ba_input"),
     <<"align_via_Sim3_to_poses", 0, -1>>, <<"align_via_Sim3_to_poses", 1, -1>>}

\* C25: the evaluation-only Sim(3) alignment to the ground-truth poses never
\* changes what the optimizer consumes: bundle adjustment takes the unaligned
\* output of data association, no aligned value flows into a computation of
\* the multi-view stage, and the aligned copy is what is returned as the
\* pre-refinement estimate.
C25_AlignmentNeverFeedsOptimizer ==
    pc = "returned" =>
        /\ Deps(StageNode("bundle_adjustment")) = {StageNode("data_association")}
        /\ Ancestors(MultiViewComputations \cup {StageNode("init_cameras")})
               \cap GTAlignedNodes = {}
        /\ ReturnedNodes("ba_input") = {StageNode("align_ba_input")}
        /\ Deps(StageNode("align_ba_input")) = {StageNode("data_association")}
        /\ status[StageNode("bundle_adjustment")] # "pending" =>
               status[StageNode("data_association")] = "done"

\* bundle adjustment has produced the refined estimate while the alignment of
\* the pre-refinement estimate, also asked for, has not run yet
C25_Witness ==
    /\ entry = "MultiViewOptimizer"
    /\ pc = "returned"
    /\ {"ba_input", "ba_result"} \subseteq requested
    /\ status[StageNode("bundle_adjustment")] = "done"
    /\ status[StageNode("align_ba_input")] = "pending"

(***************************************************************************)
(* The destinations of the side-effect tasks (scene_optimizer.py:41-53).   *)
(* A path is the sequence of its components below the repository root; a   *)
(* component is a sequence of name parts. A destination is a path and its   *)
(* kind: "file" where the source names the file written, "directory"       *)
(* where a utility is handed a directory and names its files itself.       *)
(***************************************************************************)
PLOT_BASE_PATH == << <<"plots">> >>
METRICS_PATH == << <<"result_metrics">> >>
RESULTS_PATH == << <<"results">> >>
PLOT_CORRESPONDENCE_PATH == Append(PLOT_BASE_PATH, <<"correspondences">>)
PLOT_BA_INPUT_PATH == Append(PLOT_BASE_PATH, <<"ba_input">>)
PLOT_RESULTS_PATH == Append(PLOT_BASE_PATH, <<"results">>)
REACT_METRICS_PATH == << <<"rtf_vis_tool">>, <<"src">>, <<"result_metrics">> >>
REACT_RESULTS_PATH == << <<"rtf_vis_tool">>, <<"public">>, <<"results">> >>

File(dir, name) == [path |-> Append(dir, name), kind |-> "file"]
Directory(dir) == [path |-> dir, kind |-> "directory"]

\* largest image index whose file name is formed
MaxFileIndex == 25

DigitChars == <<"0", "1", "2", "3", "4", "5", "6", "7", "8", "9">>

\* str(n) of a non-negative integer
RECURSIVE Digits(_)
Digits(n) ==
    IF n < 10 THEN <<DigitChars[n + 1]>>
    ELSE Digits(n \div 10) \o <<DigitChars[(n % 10) + 1]>>

\* scene_optimizer.py:185: f"{i1}_{i2}.jpg"
CorrespondenceFileName(p) ==
    Digits(p[1]) \o <<"_">> \o Digits(p[2]) \o <<".jpg">>

\* one file name for the reports of every checkpoint
ReportFileNameWithoutTag(t) == <<"two_view_report", ".json">>

\* scene_optimizer.py:226: "two_view_report_{}.json".format(tag)
ReportFileName(t) == <<"two_view_report_", <<"PRE_BA", "POST_BA", "POST_ISP">>[t + 1], ".json">>

\* the destinations a side-effect node is given: scene_optimizer.py:185
\* (correspondence image), 226 and 458-461 (two-view reports), 337-342 (3D
\* visualizations), 360-375 (exports), 395-404 (metrics)
Writes(n) ==
    CASE n[1] = "save_twoview_correspondences_viz" ->
            {File(PLOT_CORRESPONDENCE_PATH, CorrespondenceFileName(<<n[2], n[3]>>))}
      [] n[1] = "save_full_frontend_metrics" ->
            {File(METRICS_PATH, ReportFileName(n[2])),
             File(REACT_METRICS_PATH, ReportFileName(n[2]))}
      [] n[1] = "save_sfm_data_viz" ->
            {Directory(IF n[2] = 0 THEN PLOT_BA_INPUT_PATH ELSE PLOT_RESULTS_PATH)}
      [] n[1] = "save_camera_poses_viz" ->
            {Directory(PLOT_RESULTS_PATH)}
      [] n[1] = "export_model_as_colmap_text" ->
            {Directory(Append(IF n[2] = 0 THEN RESULTS_PATH ELSE REACT_RESULTS_PATH,
                              <<IF n[3] = 0 THEN "ba_input" ELSE "ba_output">>))}
      [] n[1] = "save_metrics_as_json" ->
            {Directory(IF n[2] = 0 THEN METRICS_PATH ELSE REACT_METRICS_PATH)}
      [] n[1] = "generate_metrics_report_html" ->
            {File(METRICS_PATH, <<"gtsfm_metrics_report.html">>)}
      [] OTHER -> {}

\* path p is path q or lies above it
IsPrefix(p, q) ==
    /\ Len(p) <= Len(q)
    /\ \A i \in 1 .. Len(p) : p[i] = q[i]

\* two destinations are one path, or one is a directory the other lies in
Overlap(d1, d2) == IsPrefix(d1.path, d2.path) \/ IsPrefix(d2.path, d1.path)

\* the pair keys whose file names are compared
FilePairs == {q \in (0 .. MaxFileIndex) \X (0 .. MaxFileIndex) : q[1] < q[2]}

\* different pairs get different correspondence file names
CorrespondenceFileNamesDistinct ==
    \A q1 \in FilePairs : \A q2 \in FilePairs :
        q1 # q2 => CorrespondenceFileName(q1) # CorrespondenceFileName(q2)

\* the destinations of two different side-effect tasks that may run at once
ConcurrentDestinations ==
    {<<n1, d1, n2, d2>> \in
         UNION {{<<m1, e1, m2, e2>> : e1 \in Writes(m1), e2 \in Writes(m2)} :
                    m1 \in SideEffectNodes, m2 \in SideEffectNodes} :
         n1 # n2 /\ Concurrent(n1, n2)}

\* C22 as claimed: no two side-effect tasks that may run concurrently write to
\* the same path: per-pair correspondence images, per-checkpoint two-view
\* reports, BA-input/BA-output exports, 3D visualizations and metrics exports
\* target pairwise distinct destinations, for every set of candidate pairs.
C22_ConcurrentWritersNeverCollide ==
    /\ CorrespondenceFileNamesDistinct
    /\ (entry = "SceneOptimizer" /\ pc = "frontend_wired") =>
           \A c \in ConcurrentDestinations : ~Overlap(c[2], c[4])

\* the directories more than one concurrent task is given
SharedDirectories == {PLOT_RESULTS_PATH, METRICS_PATH, REACT_METRICS_PATH}

\* C22 as amended: no two side-effect tasks that may run concurrently are
\* given the same destination file, and no two calls of one operation are
\* given overlapping destinations: correspondence images, two-view reports
\* and BA-input/BA-output exports are pairwise distinct for every set of
\* candidate pairs. Destinations overlap only between different operations
\* and only in a directory one of them is given whole: PLOT_RESULTS_PATH,
\* METRICS_PATH or REACT_METRICS_PATH.
C22_OnlyDirectoriesAreShared ==
    /\ CorrespondenceFileNamesDistinct
    /\ (entry = "SceneOptimizer" /\ pc = "frontend_wired") =>
           \A c \in ConcurrentDestinations :
               Overlap(c[2], c[4]) =>
                   /\ c[1][1] # c[3][1]
                   /\ "directory" \in {c[2].kind, c[4].kind}
                   /\ \E dir \in SharedDirectories :
                          /\ IsPrefix(dir, c[2].path)
                          /\ IsPrefix(dir, c[4].path)
                          /\ Directory(dir) \in {c[2], c[4]}

\* two correspondence visualizations are wired, independent of each other,
\* and write different files of one directory, while the visualization of the
\* refined estimate and the one of the camera poses, independent of each
\* other too, are given the same directory
C22_Witness ==
    /\ entry = "SceneOptimizer"
    /\ save_viz
    /\ pc = "frontend_wired"
    /\ \E p1 \in image_pair_indices : \E p2 \in image_pair_indices :
           /\ p1 # p2
           /\ {CorrespondenceVizNode(p1), CorrespondenceVizNode(p2)} \subseteq DOMAIN status
           /\ Concurrent(CorrespondenceVizNode(p1), CorrespondenceVizNode(p2))
           /\ \E w1 \in Writes(CorrespondenceVizNode(p1)) :
                  \E w2 \in Writes(CorrespondenceVizNode(p2)) :
                      /\ ~Overlap(w1, w2)
                      /\ SubSeq(w1.path, 1, Len(w1.path) - 1)
                             = SubSeq(w2.path, 1, Len(w2.path) - 1)
    /\ \E c \in ConcurrentDestinations :
           /\ c[1] = <<"save_sfm_data_viz", 1, -1>>
           /\ c[3] = StageNode("save_camera_poses_viz")
           /\ c[2] = c[4]

(***************************************************************************)
(* save_full_frontend_metrics (scene_optimizer.py:409-461).                *)
(* A float is <<"num", s, n>>, the value s/n in thousandths, or NaN; an    *)
(* optional float may also be NoneNum. Counts are <<"num", c, 1>>.         *)
(***************************************************************************)
\* digits kept of each float of a persisted record
PRINT_NUM_SIG_FIGS == 2

NoneNum == <<"None", 0, 1>>
NaN == <<"nan", 0, 1>>
Num(v) == <<"num", v, 1>>
Ratio(s, n) == <<"num", s, n>>

NoneArr == [present |-> FALSE, a |-> <<>>]
Arr(a) == [present |-> TRUE, a |-> a]
\* an entry of a float array that is nan
NaNEntry == -1

\* Python's truth value of an optional float: None and 0 are false, nan is true
Truthy(x) == x[1] = "nan" \/ (x[1] = "num" /\ x[2] # 0)

\* thousandths per unit of the last digit kept
RoundStep == 10 ^ (3 - PRINT_NUM_SIG_FIGS)

\* bits after the leading one of the significand of a Python float
MantissaBits == 52

RECURSIVE PowMod(_, _, _)
PowMod(b, e, m) ==
    IF e = 0 THEN 1 % m
    ELSE LET h == PowMod(b, e \div 2, m)
         IN  (((h * h) % m) * (IF e % 2 = 1 THEN b ELSE 1)) % m

\* the j for which v * 2^j lies in [1000, 2000): v/1000 is 2^-j times a
\* significand in [1, 2)
RECURSIVE BinaryScale(_, _)
BinaryScale(v, j) ==
    IF v < 1000 THEN BinaryScale(2 * v, j + 1)
    ELSE IF v >= 2000 THEN BinaryScale(v \div 2, j - 1)
    ELSE j

\* the sign of the error of the float nearest to v thousandths: the float is
\* m * 2^-e with m the integer nearest to v * 2^e / 1000, so it lies below
\* v/1000 when the remainder of that division is under half the divisor,
\* above when it is over, and on it when there is none (v a multiple of 125)
FloatLean(v) ==
    LET e == MantissaBits + BinaryScale(v, 0)
        r == ((v % 1000) * PowMod(2, e, 1000)) % 1000
    IN  IF v % 125 = 0 THEN 0 ELSE IF r < 500 THEN -1 ELSE 1

\* how the rounding of a mean resolves a decimal tie: np.nanmean returns an
\* np.float64 whose accumulated binary error and whose own rounding the
\* thousandths do not determine
TieChoices == {"down", "up"}

\* s/n rounded to a multiple of RoundStep. Off a decimal tie the nearest
\* multiple; on one, tie = "float" rounds the binary value the float nearest
\* to s/n has (a float that is exactly the tie goes to the even digit), and
\* "down" or "up" is the direction taken for a mean
RoundDiv(s, n, tie) ==
    LET d == n * RoundStep
        q == s \div d
        r == s % d
        lean == IF tie = "float" THEN FloatLean(s \div n)
                ELSE IF tie = "up" THEN 1 ELSE -1
    IN  RoundStep * (IF 2 * r < d THEN q
                     ELSE IF 2 * r > d THEN q + 1
                     ELSE IF lean < 0 THEN q
                     ELSE IF lean > 0 THEN q + 1
                     ELSE IF q % 2 = 0 THEN q ELSE q + 1)

\* round(x, PRINT_NUM_SIG_FIGS) of a float
round(x, tie) == IF x[1] = "num" THEN Num(RoundDiv(x[2], x[3], tie)) ELSE x

\* scene_optimizer.py:424
round_fn(x, tie) == IF Truthy(x) THEN round(x, tie) ELSE NoneNum

\* int(x or 0): None becomes 0
int_or_zero(x) == IF x = NoneNum THEN Num(0) ELSE x

\* int(x) if x is not None else None
int_or_none(x) == x

RECURSIVE SumOver(_, _)
SumOver(a, I) ==
    IF I = {} THEN 0
    ELSE LET i == CHOOSE i \in I : TRUE IN a[i] + SumOver(a, I \ {i})

\* np.nanmean(a[mask == want]): the mean of the selected entries that are not
\* nan, and nan when there is none
nanmean(a, mask, want) ==
    LET I == {i \in DOMAIN a : mask[i] = want /\ a[i] # NaNEntry}
    IN  IF I = {} THEN NaN ELSE Ratio(SumOver(a, I), Cardinality(I))

\* the mean is free of binary error: every selected entry, and so their sum,
\* is a float exactly, and so is the mean
ExactMean(a, mask, want) ==
    LET I == {i \in DOMAIN a : mask[i] = want /\ a[i] # NaNEntry}
    IN  /\ \A i \in I : a[i] % 125 = 0
        /\ I # {} => /\ SumOver(a, I) % Cardinality(I) = 0
                     /\ (SumOver(a, I) \div Cardinality(I)) % 125 = 0

\* scene_optimizer.py:441-450
avg_reproj_error(report, want, tie) ==
    IF report.reproj_error_gt_model.present
       /\ report.v_corr_idxs_inlier_mask_gt.present
    THEN round_fn(nanmean(report.reproj_error_gt_model.a,
                          report.v_corr_idxs_inlier_mask_gt.a, want),
                  IF ExactMean(report.reproj_error_gt_model.a,
                               report.v_corr_idxs_inlier_mask_gt.a, want)
                  THEN "float" ELSE tie)
    ELSE NoneNum

\* scene_optimizer.py:429-456: the record of one pair; images[i].file_name is
\* modelled by the image index; ties holds the direction of a decimal tie of
\* the inlier and of the outlier mean
MetricsRecord(k, report, ties) ==
    [i1 |-> k[1],
     i2 |-> k[2],
     i1_filename |-> k[1],
     i2_filename |-> k[2],
     rotation_angular_error |-> round_fn(report.R_error_deg, "float"),
     translation_angular_error |-> round_fn(report.U_error_deg, "float"),
     num_inliers_gt_model |-> int_or_none(report.num_inliers_gt_model),
     inlier_ratio_gt_model |-> round_fn(report.inlier_ratio_gt_model, "float"),
     inlier_avg_reproj_error_gt_model |-> avg_reproj_error(report, TRUE, ties[1]),
     outlier_avg_reproj_error_gt_model |-> avg_reproj_error(report, FALSE, ties[2]),
     inlier_ratio_est_model |-> round_fn(report.inlier_ratio_est_model, "float"),
     num_inliers_est_model |-> int_or_none(report.num_inliers_est_model)]

\* the orders in which the keys S may have been inserted into a dict
InsertionOrders(S) ==
    {o \in [1 .. Cardinality(S) -> S] : \A k \in S : \E i \in DOMAIN o : o[i] = k}

NoneReport == [kind |-> "None"]

\* the directions the means of a report can take: a choice only where the
\* mean is a decimal tie that carries binary error
MeanTies(report, want) ==
    IF /\ report.kind = "report"
       /\ avg_reproj_error(report, want, "down") # avg_reproj_error(report, want, "up")
    THEN TieChoices ELSE {"down"}

\* the directions for the reports of the keys K of a dict
RECURSIVE TiesOver(_, _)
TiesOver(dict, K) ==
    IF K = {} THEN {<<>>}
    ELSE LET k0 == CHOOSE k \in K : TRUE
         IN  {[k \in K |-> IF k = k0 THEN c ELSE t[k]] :
                 t \in TiesOver(dict, K \ {k0}),
                 c \in MeanTies(dict[k0], TRUE) \X MeanTies(dict[k0], FALSE)}

TiesOf(dict) == TiesOver(dict, DOMAIN dict)

\* scene_optimizer.py:422-461: reading a field of a report that is None raises
\* AttributeError before anything is written
save_full_frontend_metrics(dict, keys, ties) ==
        IF \E k \in DOMAIN dict : dict[k].kind = "None"
        THEN [called |-> TRUE, raised |-> TRUE, metrics_list |-> <<>>,
              written |-> {}]
        ELSE [called |-> TRUE, raised |-> FALSE,
              metrics_list |->
                  [i \in DOMAIN keys |->
                      MetricsRecord(keys[i], dict[keys[i]], ties[keys[i]])],
              written |-> {"METRICS_PATH", "REACT_METRICS_PATH"}]

(***************************************************************************)
(* SpecReports: save_full_frontend_metrics applied to report mappings.     *)
(***************************************************************************)
\* largest number of pairs of a report mapping
MaxReports == 2

\* rotation and translation angular errors, in thousandths of a degree
\* (2.675 is a decimal tie whose float lies off the tie, 0.125 one whose float
\* is the tie)
ErrorSamples == {<<0, 0>>, <<4, 125>>, <<2675, 567>>}
\* inlier count and inlier ratio (thousandths) under the ground-truth model
InlierSamples == {<<0, 0>>, <<5, 333>>}
\* reprojection errors (thousandths) with the inlier mask
ReprojSamples ==
    {<< <<0, 0>>, <<TRUE, FALSE>> >>,
     << <<12, 30, 125>>, <<TRUE, TRUE, FALSE>> >>,
     << <<10, 20, NaNEntry>>, <<TRUE, TRUE, FALSE>> >>,
     << <<>>, <<>> >>}
\* inlier ratio and count under the estimated model
EstimatedSamples == {<<NoneNum, NoneNum>>, <<Num(0), Num(0)>>, <<Num(667), Num(3)>>}

\* a report of a pair with ground truth
GTReport(e, n, r, m) ==
    [kind |-> "report",
     R_error_deg |-> Num(e[1]),
     U_error_deg |-> Num(e[2]),
     num_inliers_gt_model |-> Num(n[1]),
     inlier_ratio_gt_model |-> Num(n[2]),
     reproj_error_gt_model |-> Arr(r[1]),
     v_corr_idxs_inlier_mask_gt |-> Arr(r[2]),
     inlier_ratio_est_model |-> m[1],
     num_inliers_est_model |-> m[2]]

\* the sample every group of fields is varied around
BaseError == <<4, 125>>
BaseInlier == <<5, 333>>
BaseReproj == << <<12, 30, 125>>, <<TRUE, TRUE, FALSE>> >>
BaseEstimated == <<Num(667), Num(3)>>

\* reports of pairs with ground truth: the record computes every field from
\* its own inputs, so one group of fields is varied at a time
ReportsWithGT ==
    {GTReport(e, BaseInlier, BaseReproj, BaseEstimated) : e \in ErrorSamples}
    \cup {GTReport(BaseError, n, BaseReproj, BaseEstimated) : n \in InlierSamples}
    \cup {GTReport(BaseError, BaseInlier, r, BaseEstimated) : r \in ReprojSamples}
    \cup {GTReport(BaseError, BaseInlier, BaseReproj, m) : m \in EstimatedSamples}

\* reports of pairs without ground truth: every value that needs it is None
ReportsWithoutGT ==
    {[kind |-> "report",
      R_error_deg |-> NoneNum,
      U_error_deg |-> NoneNum,
      num_inliers_gt_model |-> NoneNum,
      inlier_ratio_gt_model |-> NoneNum,
      reproj_error_gt_model |-> NoneArr,
      v_corr_idxs_inlier_mask_gt |-> NoneArr,
      inlier_ratio_est_model |-> m[1],
      num_inliers_est_model |-> m[2]] : m \in EstimatedSamples}

\* what a pair's report may be: None when its verification failed
ReportValues == ReportsWithGT \cup ReportsWithoutGT \cup {NoneReport}

InitReports ==
    /\ PruneIdle
    /\ GraphIdle
    /\ \E S \in {S \in SUBSET CandidatePairs : Cardinality(S) <= MaxReports} :
           /\ two_view_report_dict \in [S -> ReportValues]
           /\ insertion_order \in InsertionOrders(S)
    /\ frontend_metrics = NotSaved
    /\ CompareIdle
    /\ MvsIdle
    /\ CameraIdle

SaveFullFrontendMetrics ==
    /\ ~frontend_metrics.called
    /\ \E ties \in TiesOf(two_view_report_dict) :
           frontend_metrics' = save_full_frontend_metrics(two_view_report_dict,
                                                          insertion_order, ties)
    /\ UNCHANGED <<pruneVars, graphVars, two_view_report_dict, insertion_order,
                   compareVars, mvsVars, cameraVars>>

NextReports == SaveFullFrontendMetrics

SpecReports == InitReports /\ [][NextReports]_vars

\* C5: a pair whose verification failed (rotation, direction and report None)
\* does not abort the run: the report persistence joined into the result
\* completes without raising and the pair merely contributes nothing.
C5_FailedPairDoesNotAbort ==
    frontend_metrics.called => ~frontend_metrics.raised

\* the report of a pair without ground truth: every value that needs the
\* ground truth is None
WithoutGroundTruth(report) ==
    /\ report.kind = "report"
    /\ report.R_error_deg = NoneNum
    /\ report.U_error_deg = NoneNum
    /\ report.num_inliers_gt_model = NoneNum
    /\ report.inlier_ratio_gt_model = NoneNum
    /\ ~report.reproj_error_gt_model.present
    /\ ~report.v_corr_idxs_inlier_mask_gt.present

\* the fields of a record that depend on the ground truth are all null
GTFieldsNull(rec) ==
    /\ rec.rotation_angular_error = NoneNum
    /\ rec.translation_angular_error = NoneNum
    /\ rec.num_inliers_gt_model = NoneNum
    /\ rec.inlier_ratio_gt_model = NoneNum
    /\ rec.inlier_avg_reproj_error_gt_model = NoneNum
    /\ rec.outlier_avg_reproj_error_gt_model = NoneNum

\* the records written for pair k
RecordsOf(k) ==
    {i \in DOMAIN frontend_metrics.metrics_list :
        /\ frontend_metrics.metrics_list[i].i1 = k[1]
        /\ frontend_metrics.metrics_list[i].i2 = k[2]}

\* C19: for a mapping of pairs to reports, save_full_frontend_metrics does not
\* raise and writes exactly one record per pair of the mapping, and the record
\* of every pair whose report has no ground truth (its ground-truth values are
\* None) has null in all six fields that depend on the ground truth.
C19_OneRecordPerPairNullWithoutGT ==
    (/\ frontend_metrics.called
     /\ \A k \in DOMAIN two_view_report_dict :
            two_view_report_dict[k].kind = "report")
    => /\ ~frontend_metrics.raised
       /\ Len(frontend_metrics.metrics_list)
              = Cardinality(DOMAIN two_view_report_dict)
       /\ \A k \in DOMAIN two_view_report_dict :
              /\ Cardinality(RecordsOf(k)) = 1
              /\ WithoutGroundTruth(two_view_report_dict[k])
                     => \A i \in RecordsOf(k) :
                            GTFieldsNull(frontend_metrics.metrics_list[i])

\* two pairs saved, one without ground truth whose estimated-model fields are
\* still written, one with ground truth
C19_Witness ==
    /\ frontend_metrics.called
    /\ ~frontend_metrics.raised
    /\ Len(frontend_metrics.metrics_list) = 2
    /\ \E k \in DOMAIN two_view_report_dict :
           /\ WithoutGroundTruth(two_view_report_dict[k])
           /\ \E i \in RecordsOf(k) :
                  /\ GTFieldsNull(frontend_metrics.metrics_list[i])
                  /\ frontend_metrics.metrics_list[i].num_inliers_est_model = Num(3)
    /\ \E k \in DOMAIN two_view_report_dict :
           ~WithoutGroundTruth(two_view_report_dict[k])

\* the rounded fields of a record are null only where the report has no value:
\* the four scalar fields where the report's value is None, the two average
\* reprojection errors where the errors or the inlier mask are None
NullOnlyWhenAbsent(rec, report) ==
    /\ rec.rotation_angular_error = NoneNum => report.R_error_deg = NoneNum
    /\ rec.translation_angular_error = NoneNum => report.U_error_deg = NoneNum
    /\ rec.inlier_ratio_gt_model = NoneNum
           => report.inlier_ratio_gt_model = NoneNum
    /\ rec.inlier_ratio_est_model = NoneNum
           => report.inlier_ratio_est_model = NoneNum
    /\ rec.inlier_avg_reproj_error_gt_model = NoneNum
           => ~(/\ report.reproj_error_gt_model.present
                /\ report.v_corr_idxs_inlier_mask_gt.present)
    /\ rec.outlier_avg_reproj_error_gt_model = NoneNum
           => ~(/\ report.reproj_error_gt_model.present
                /\ report.v_corr_idxs_inlier_mask_gt.present)

\* C29: in a persisted two-view record a rounded numeric field (the rotation
\* and translation angular errors, the two inlier ratios, the inlier and
\* outlier average reprojection errors) is null only when the report's
\* corresponding value is None; a present value, exactly 0 included, is
\* persisted as a number.
C29_NullOnlyForNone ==
    (frontend_metrics.called /\ ~frontend_metrics.raised) =>
        \A k \in DOMAIN two_view_report_dict :
            \A i \in RecordsOf(k) :
                NullOnlyWhenAbsent(frontend_metrics.metrics_list[i],
                                   two_view_report_dict[k])

(***************************************************************************)
(* utils/geometry_comparisons.py.                                          *)
(* Rot3 is modelled by the group of the permutations of three axes, which  *)
(* is not commutative; two different elements are further apart than any   *)
(* tolerance the code uses. A Point3 is an integer 3-vector, a Pose3 a     *)
(* record [R, t]. None is NoRot in a list of rotations and NoPose in a     *)
(* list of poses.                                                          *)
(***************************************************************************)
Rot3Identity == <<1, 2, 3>>
Rot3All == {p \in (1 .. 3) \X (1 .. 3) \X (1 .. 3) : {p[1], p[2], p[3]} = 1 .. 3}

NoRot == <<>>
NoPose == [R |-> <<>>, t |-> <<>>]

\* Rot3.compose: (p o q)
Rot3Compose(p, q) == <<p[q[1]], p[q[2]], p[q[3]]>>
\* Rot3.inverse
Rot3Inverse(p) == CHOOSE q \in Rot3All : Rot3Compose(p, q) = Rot3Identity
\* Rot3.equals(other, tol)
Rot3Equals(p, q) == p = q
\* R * v
Rot3Rotate(p, v) == <<v[Rot3Inverse(p)[1]], v[Rot3Inverse(p)[2]], v[Rot3Inverse(p)[3]]>>

Abs(x) == IF x < 0 THEN -x ELSE x

\* np.allclose(a, b, rtol=trans_err_thresh) with the default threshold 1e-1:
\* |a - b| <= atol + rtol * |b| in every coordinate; atol = 1e-8 is below the
\* resolution of the integer coordinates
allclose(a, b) == \A i \in 1 .. 3 : 10 * Abs(a[i] - b[i]) <= Abs(b[i])

\* Similarity3.transformFrom(Pose3): Pose3(R o T.R, s * (R * T.t + t))
transformFrom(S, T) ==
    LET v == Rot3Rotate(S.R, T.t)
    IN  [R |-> Rot3Compose(S.R, T.R),
         t |-> <<S.s * (v[1] + S.t[1]), S.s * (v[2] + S.t[2]), S.s * (v[3] + S.t[3])>>]

\* the call returned / raised
Returned(value, align_calls, estimated, out) ==
    [state |-> "returned", value |-> value, align_calls |-> align_calls,
     estimated |-> estimated, out |-> out]
Raised(align_calls, estimated) ==
    [state |-> "raised", value |-> FALSE, align_calls |-> align_calls,
     estimated |-> estimated, out |-> <<>>]

\* [i for (i, x) in enumerate(l) if x is not None], indices counted from 0
valid_rotations(l) ==
    SelectSeq([i \in 1 .. Len(l) |-> i - 1], LAMBDA i : l[i + 1] # NoRot)
valid_poses(l) ==
    SelectSeq([i \in 1 .. Len(l) |-> i - 1], LAMBDA i : l[i + 1] # NoPose)

\* [l[i] for i in valid]
Gather(l, valid) == [k \in 1 .. Len(valid) |-> l[valid[k] + 1]]

\* zip(a, b) stops at the shorter list
ZipLen(a, b) == IF Len(a) < Len(b) THEN Len(a) ELSE Len(b)

\* keeps the input when the precondition fails
align_poses_sim3_noop(aTi_list, bTi_list, aSb) ==
    IF Len(aTi_list) # Len(bTi_list) \/ Len(aTi_list) < 2
    THEN Returned(FALSE, 0, FALSE, bTi_list)
    ELSE Returned(FALSE, 0, TRUE,
                  [i \in 1 .. Len(aTi_list) |-> transformFrom(aSb, bTi_list[i])])

\* geometry_comparisons.py:33-66; aSb is what Similarity3.Align estimates
align_poses_sim3(aTi_list, bTi_list, aSb) ==
    IF Len(aTi_list) # Len(bTi_list) THEN Raised(0, FALSE)
    ELSE IF ~(Len(aTi_list) >= 2) THEN Raised(0, FALSE)
    ELSE Returned(FALSE, 0, TRUE,
                  [i \in 1 .. Len(aTi_list) |-> transformFrom(aSb, bTi_list[i])])

\* applies the origin shift on the right of every entry
align_rotations_shift_on_right(input_list, ref_list) ==
    IF Len(input_list) = 0 \/ Len(ref_list) = 0 THEN Raised(0, FALSE)
    ELSE LET w2Rw1 == Rot3Compose(ref_list[1], Rot3Inverse(input_list[1]))
         IN  Returned(FALSE, 0, FALSE,
                      [i \in 1 .. Len(input_list) |-> Rot3Compose(input_list[i], w2Rw1)])

\* geometry_comparisons.py:13-30; indexing an empty list raises IndexError,
\* and so does None.inverse(), None.compose(...) or composing with None
align_rotations(input_list, ref_list) ==
    IF Len(input_list) = 0 \/ Len(ref_list) = 0 THEN Raised(0, FALSE)
    ELSE IF ref_list[1] = NoRot \/ \E i \in 1 .. Len(input_list) : input_list[i] = NoRot
    THEN Raised(0, FALSE)
    ELSE LET w2Rw1 == Rot3Compose(ref_list[1], Rot3Inverse(input_list[1]))
         IN  Returned(FALSE, 0, FALSE,
                      [i \in 1 .. Len(input_list) |-> Rot3Compose(w2Rw1, input_list[i])])

\* the tail of compare_rotations (lines 99-104)
compare_aligned_rotations(wRi_list, wRi_list_, wRi_valid, wRi_valid_) ==
    LET ref == Gather(wRi_list_, wRi_valid_)
        al  == align_rotations(Gather(wRi_list, wRi_valid), ref)
    IN  IF al.state = "raised" THEN Raised(1, FALSE)
        ELSE Returned(\A k \in 1 .. ZipLen(al.out, ref) : Rot3Equals(al.out[k], ref[k]),
                      1, FALSE, al.out)

\* compares the counts of the valid entries, not their positions
compare_rotations_by_count(wRi_list, wRi_list_) ==
    LET wRi_valid  == valid_rotations(wRi_list)
        wRi_valid_ == valid_rotations(wRi_list_)
    IN  IF Len(wRi_list) # Len(wRi_list_) THEN Returned(FALSE, 0, FALSE, <<>>)
        ELSE IF Len(wRi_valid) # Len(wRi_valid_) THEN Returned(FALSE, 0, FALSE, <<>>)
        ELSE IF Len(wRi_valid) <= 1 THEN Returned(FALSE, 0, FALSE, <<>>)
        ELSE compare_aligned_rotations(wRi_list, wRi_list_, wRi_valid, wRi_valid_)

\* geometry_comparisons.py:69-104
compare_rotations(wRi_list, wRi_list_) ==
    LET wRi_valid  == valid_rotations(wRi_list)
        wRi_valid_ == valid_rotations(wRi_list_)
    IN  IF Len(wRi_list) # Len(wRi_list_) THEN Returned(FALSE, 0, FALSE, <<>>)
        ELSE IF wRi_valid # wRi_valid_ THEN Returned(FALSE, 0, FALSE, <<>>)
        ELSE IF Len(wRi_valid) <= 1 THEN Returned(FALSE, 0, FALSE, <<>>)
        ELSE compare_aligned_rotations(wRi_list, wRi_list_, wRi_valid, wRi_valid_)

\* the tail of compare_global_poses (lines 145-163)
compare_aligned_poses(aTi_list, bTi_list, aTi_valid, bTi_valid, aSb) ==
    LET ref == Gather(aTi_list, aTi_valid)
        al  == align_poses_sim3(ref, Gather(bTi_list, bTi_valid), aSb)
    IN  IF al.state = "raised" THEN Raised(1, al.estimated)
        ELSE Returned(\A k \in 1 .. ZipLen(ref, al.out) :
                          /\ Rot3Equals(ref[k].R, al.out[k].R)
                          /\ allclose(ref[k].t, al.out[k].t),
                      1, al.estimated, al.out)

\* goes on to the alignment whatever the lengths of the two lists
compare_global_poses_any_length(aTi_list, bTi_list, aSb) ==
    LET aTi_valid == valid_poses(aTi_list)
        bTi_valid == valid_poses(bTi_list)
    IN  IF aTi_valid # bTi_valid THEN Returned(FALSE, 0, FALSE, <<>>)
        ELSE IF Len(aTi_valid) <= 1 THEN Returned(FALSE, 0, FALSE, <<>>)
        ELSE compare_aligned_poses(aTi_list, bTi_list, aTi_valid, bTi_valid, aSb)

\* goes on to the alignment however few poses are left
compare_global_poses_no_minimum(aTi_list, bTi_list, aSb) ==
    LET aTi_valid == valid_poses(aTi_list)
        bTi_valid == valid_poses(bTi_list)
    IN  IF Len(aTi_list) # Len(bTi_list) THEN Returned(FALSE, 0, FALSE, <<>>)
        ELSE IF aTi_valid # bTi_valid THEN Returned(FALSE, 0, FALSE, <<>>)
        ELSE compare_aligned_poses(aTi_list, bTi_list, aTi_valid, bTi_valid, aSb)

\* geometry_comparisons.py:107-163 with the default thresholds
compare_global_poses(aTi_list, bTi_list, aSb) ==
    LET aTi_valid == valid_poses(aTi_list)
        bTi_valid == valid_poses(bTi_list)
    IN  IF Len(aTi_list) # Len(bTi_list) THEN Returned(FALSE, 0, FALSE, <<>>)
        ELSE IF aTi_valid # bTi_valid THEN Returned(FALSE, 0, FALSE, <<>>)
        ELSE IF Len(aTi_valid) <= 1 THEN Returned(FALSE, 0, FALSE, <<>>)
        ELSE compare_aligned_poses(aTi_list, bTi_list, aTi_valid, bTi_valid, aSb)

(***************************************************************************)
(* SpecCompare: one call of a function of geometry_comparisons.py on       *)
(* lists drawn from small sets.                                            *)
(***************************************************************************)
\* longest list handed to a function
MaxLen == 3

\* the identity, an exchange of two axes and a cyclic shift of the three
RotSamples == {Rot3Identity, <<2, 1, 3>>, <<2, 3, 1>>}
PoseSamples ==
    {[R |-> Rot3Identity, t |-> <<0, 0, 0>>],
     [R |-> <<2, 1, 3>>, t |-> <<10, 0, 0>>],
     [R |-> <<2, 1, 3>>, t |-> <<11, 0, 0>>]}
\* the transforms Similarity3.Align may estimate
Sim3Samples ==
    {[R |-> Rot3Identity, t |-> <<0, 0, 0>>, s |-> 1],
     [R |-> <<2, 1, 3>>, t |-> <<0, 0, 0>>, s |-> 1],
     [R |-> Rot3Identity, t |-> <<1, 0, 0>>, s |-> 2]}
NoSim3 == <<>>

ListsOf(S) == UNION {[1 .. n -> S] : n \in 0 .. MaxLen}

CompareFunctions ==
    {"compare_rotations", "compare_global_poses", "align_poses_sim3", "align_rotations"}

\* the lists a function accepts by its signature
ArgumentsOf(fn) ==
    CASE fn = "compare_rotations"    -> ListsOf(RotSamples \cup {NoRot})
      [] fn = "compare_global_poses" -> ListsOf(PoseSamples \cup {NoPose})
      [] fn = "align_poses_sim3"     -> ListsOf(PoseSamples)
      [] fn = "align_rotations"      -> ListsOf(RotSamples)

InitCompare ==
    /\ PruneIdle
    /\ GraphIdle
    /\ ReportIdle
    /\ CameraIdle

    /\ MvsIdle
    /\ \E fn \in CompareFunctions :
           \E a \in ArgumentsOf(fn), b \in ArgumentsOf(fn) :
               cmp = [fn |-> fn, a |-> a, b |-> b, aSb |-> NoSim3, res |-> NotCalled]

Idle == UNCHANGED <<pruneVars, graphVars, reportVars, cameraVars, mvsVars>>

CompareRotations ==
    /\ cmp.fn = "compare_rotations"
    /\ cmp.res.state = "ready"
    /\ cmp' = [cmp EXCEPT !.res = compare_rotations(cmp.a, cmp.b)]
    /\ Idle

CompareGlobalPoses(aSb) ==
    /\ cmp.fn = "compare_global_poses"
    /\ cmp.res.state = "ready"
    /\ cmp' = [cmp EXCEPT !.aSb = aSb,
                          !.res = compare_global_poses(cmp.a, cmp.b, aSb)]
    /\ Idle

AlignPosesSim3(aSb) ==
    /\ cmp.fn = "align_poses_sim3"
    /\ cmp.res.state = "ready"
    /\ cmp' = [cmp EXCEPT !.aSb = aSb,
                          !.res = align_poses_sim3(cmp.a, cmp.b, aSb)]
    /\ Idle

AlignRotations ==
    /\ cmp.fn = "align_rotations"
    /\ cmp.res.state = "ready"
    /\ cmp' = [cmp EXCEPT !.res = align_rotations(cmp.a, cmp.b)]
    /\ Idle

NextCompare ==
    \/ CompareRotations
    \/ \E aSb \in Sim3Samples : CompareGlobalPoses(aSb)
    \/ \E aSb \in Sim3Samples : AlignPosesSim3(aSb)
    \/ AlignRotations

SpecCompare == InitCompare /\ [][NextCompare]_vars

\* ---- what the claims speak of, stated from the inputs of the call ----
IsComparison == cmp.fn \in {"compare_rotations", "compare_global_poses"}
Done == cmp.res.state # "ready"
NonNoneIndices(l) ==
    {i \in 1 .. Len(l) : IF cmp.fn = "compare_rotations" THEN l[i] # NoRot
                                                        ELSE l[i] # NoPose}
LengthCheck == Len(cmp.a) = Len(cmp.b)
SupportCheck == NonNoneIndices(cmp.a) = NonNoneIndices(cmp.b)
CountCheck == Cardinality(NonNoneIndices(cmp.a)) >= 2
\* the k-th non-None entry of l
NthValid(l, k) ==
    l[CHOOSE i \in NonNoneIndices(l) :
          Cardinality({j \in NonNoneIndices(l) : j <= i}) = k]
\* compare_rotations aligns the first list to the second, compare_global_poses
\* the second to the first
Reference == IF cmp.fn = "compare_rotations" THEN cmp.b ELSE cmp.a
Agrees(x, y) ==
    IF cmp.fn = "compare_rotations" THEN x = y
    ELSE x.R = y.R /\ allclose(y.t, x.t)
PerIndexChecks ==
    \A k \in 1 .. Len(cmp.res.out) :
        Agrees(cmp.res.out[k], NthValid(Reference, k))

\* C8: compare_global_poses and compare_rotations return True iff the length
\* check, the None-support check, the minimum-count check and every per-index
\* agreement check pass; when the lengths differ, the sets of non-None indices
\* differ or fewer than 2 entries are non-None they return False without
\* raising and without calling any alignment.
C8_TrueIffAllChecksPass ==
    (IsComparison /\ Done) =>
        /\ cmp.res.state = "returned"
        /\ cmp.res.value =
               (LengthCheck /\ SupportCheck /\ CountCheck /\ PerIndexChecks)
        /\ ~(LengthCheck /\ SupportCheck /\ CountCheck) =>
               (cmp.res.value = FALSE /\ cmp.res.align_calls = 0)

\* compare_global_poses returned False, without alignment, for two lists of
\* one length that hold None at different indices
C8_Witness ==
    /\ cmp.fn = "compare_global_poses"
    /\ cmp.res.state = "returned"
    /\ LengthCheck
    /\ ~SupportCheck
    /\ Cardinality(NonNoneIndices(cmp.a)) = Cardinality(NonNoneIndices(cmp.b))
    /\ CountCheck
    /\ cmp.res.value = FALSE
    /\ cmp.res.align_calls = 0

\* C9 as the specification states it: a comparison called with lists of
\* mismatched length or mismatched None-support raises an error rather than
\* returning a value.
C9_MismatchRaises ==
    (IsComparison /\ Done /\ (~LengthCheck \/ ~SupportCheck)) =>
        cmp.res.state = "raised"

\* C9 as the code has it: a comparison called with lists of mismatched length
\* or mismatched None-support returns False at once; nothing is raised and no
\* alignment is attempted.
C9_MismatchReturnsFalse ==
    (IsComparison /\ Done /\ (~LengthCheck \/ ~SupportCheck)) =>
        /\ cmp.res.state = "returned"
        /\ cmp.res.value = FALSE
        /\ cmp.res.align_calls = 0
        /\ ~cmp.res.estimated

\* compare_global_poses returned False for a list of 2 poses against a list
\* of 3 whose non-None entries sit at the same indices
C9_Witness ==
    /\ cmp.fn = "compare_global_poses"
    /\ cmp.res.state = "returned"
    /\ Len(cmp.a) = 2
    /\ Len(cmp.b) = 3
    /\ SupportCheck
    /\ CountCheck
    /\ cmp.res.value = FALSE

\* C10: align_poses_sim3 called with lists of different lengths or with fewer
\* than 2 poses raises before any transform is estimated and returns no list.
C10_AlignPreconditionIsFatal ==
    (cmp.fn = "align_poses_sim3" /\ Done /\ (~LengthCheck \/ Len(cmp.a) < 2)) =>
        /\ cmp.res.state = "raised"
        /\ ~cmp.res.estimated
        /\ cmp.res.out = <<>>

\* align_poses_sim3 raised on two lists of one pose each
C10_Witness ==
    /\ cmp.fn = "align_poses_sim3"
    /\ Len(cmp.a) = 1
    /\ Len(cmp.b) = 1
    /\ cmp.res.state = "raised"
    /\ ~cmp.res.estimated

\* one fixed rotation takes every input entry to the reference entry
SharedShift(input_list, ref_list) ==
    /\ Len(input_list) = Len(ref_list)
    /\ \E delta \in Rot3All :
           \A i \in 1 .. Len(input_list) :
               ref_list[i] = Rot3Compose(delta, input_list[i])

\* C11: for non-empty lists align_rotations returns a list of the length and
\* order of the input whose i-th entry is (ref[0] o inverse(input[0])) o
\* input[i]; so its first entry is ref[0], and when one fixed rotation takes
\* every input entry to the reference entry the output is the reference list.
C11_AlignRotationsShiftsOrigin ==
    (cmp.fn = "align_rotations" /\ Done /\ Len(cmp.a) > 0 /\ Len(cmp.b) > 0) =>
        /\ cmp.res.state = "returned"
        /\ Len(cmp.res.out) = Len(cmp.a)
        /\ \A i \in 1 .. Len(cmp.a) :
               cmp.res.out[i] =
                   Rot3Compose(Rot3Compose(cmp.b[1], Rot3Inverse(cmp.a[1])), cmp.a[i])
        /\ cmp.res.out[1] = cmp.b[1]
        /\ SharedShift(cmp.a, cmp.b) => cmp.res.out = cmp.b

\* three rotations were aligned to a reference that differs from them by one
\* rotation which does not commute with the input
C11_Witness ==
    /\ cmp.fn = "align_rotations"
    /\ cmp.res.state = "returned"
    /\ Len(cmp.a) = 3
    /\ SharedShift(cmp.a, cmp.b)
    /\ cmp.a[1] # cmp.b[1]
    /\ Rot3Compose(cmp.a[2], Rot3Compose(cmp.b[1], Rot3Inverse(cmp.a[1]))) # cmp.b[2]
    /\ cmp.res.out = cmp.b

\* None in a list of the function called
NoneEntry == IF cmp.fn = "compare_rotations" THEN NoRot ELSE NoPose

\* the non-None entries of l, in order: what a comparison hands on
ValidEntries(l) == [k \in 1 .. Cardinality(NonNoneIndices(l)) |-> NthValid(l, k)]

\* C28: called from compare_global_poses the precondition assertions of
\* align_poses_sim3 never fail, and compare_rotations never calls
\* align_rotations on an empty list or a None first entry: for all inputs
\* (any lengths, any None positions) the comparison returns without raising,
\* and when it reaches the alignment the two lists handed on have one length,
\* hold no None and have at least 2 entries.
C28_GuardsProtectAlignment ==
    (IsComparison /\ Done) =>
        /\ cmp.res.state # "raised"
        /\ cmp.res.align_calls = 1 =>
               /\ Len(ValidEntries(cmp.a)) = Len(ValidEntries(cmp.b))
               /\ Len(ValidEntries(cmp.a)) >= 2
               /\ Len(cmp.res.out) = Len(ValidEntries(cmp.a))
               /\ \A k \in 1 .. Len(ValidEntries(cmp.a)) :
                      /\ ValidEntries(cmp.a)[k] # NoneEntry
                      /\ ValidEntries(cmp.b)[k] # NoneEntry
        /\ cmp.res.align_calls = 0 =>
               ~(LengthCheck /\ SupportCheck /\ CountCheck)

\* compare_rotations went through the alignment for two lists of three
\* entries whose first entry is None in both
C28_Witness ==
    /\ cmp.fn = "compare_rotations"
    /\ cmp.res.state = "returned"
    /\ cmp.res.align_calls = 1
    /\ Len(cmp.a) = 3
    /\ cmp.a[1] = NoRot
    /\ cmp.b[1] = NoRot
    /\ Len(cmp.res.out) = 2

(***************************************************************************)
(* SpecCameras: init_cameras applied to pose lists drawn from small sets,  *)
(* with one calibration per image, all of one class.                       *)
(***************************************************************************)
PoseTokens == {"wT_a", "wT_b"}
CalibrationClasses == {"Cal3Bundler", "Cal3Fisheye"}
CalibrationIds == 1 .. 2

InitCameras ==
    /\ PruneIdle
    /\ GraphIdle
    /\ ReportIdle
    /\ CompareIdle
    /\ MvsIdle
    /\ delayed_wRi = <<>>
    /\ \E n \in 0 .. MaxLen :
           /\ wTi_list \in [1 .. n -> PoseTokens \cup {None}]
           /\ \E cls \in CalibrationClasses :
                  all_intrinsics \in [1 .. n -> {cls} \X CalibrationIds]
    /\ cameras = NoCameras

CallInitCameras ==
    /\ ~cameras.called
    /\ cameras' = init_cameras(wTi_list, all_intrinsics)
    /\ UNCHANGED <<pruneVars, graphVars, reportVars, compareVars, mvsVars, delayed_wRi,
                   wTi_list, all_intrinsics>>

NextCameras == CallInitCameras

SpecCameras == InitCameras /\ [][NextCameras]_vars

\* C12: init_cameras returns a mapping whose keys are exactly the image
\* indices with a non-None global pose; the camera at key i is built from
\* pose i and intrinsics i, and an image whose pose is None has no camera.
\* (Stated for a scene of at least one image.)
C12_CamerasExactlyForPosedImages ==
    (cameras.called /\ Len(all_intrinsics) > 0) =>
        /\ ~cameras.raised
        /\ \A i \in 1 .. Len(wTi_list) :
               /\ (i - 1 \in DOMAIN cameras.cams) <=> (wTi_list[i] # None)
               /\ (i - 1 \in DOMAIN cameras.cams) =>
                      /\ cameras.cams[i - 1].pose = wTi_list[i]
                      /\ cameras.cams[i - 1].calibration = all_intrinsics[i]
        /\ \A k \in DOMAIN cameras.cams : k + 1 \in 1 .. Len(wTi_list)

\* cameras were built for images 0 and 2 of three, image 1 having no pose and
\* the calibrations of images 0 and 2 being different
C12_Witness ==
    /\ cameras.called
    /\ Len(wTi_list) = 3
    /\ wTi_list[1] # None
    /\ wTi_list[2] = None
    /\ wTi_list[3] # None
    /\ all_intrinsics[1] # all_intrinsics[3]
    /\ DOMAIN cameras.cams = {0, 2}

(***************************************************************************)
(* densify/mvsnets/methods/PatchmatchNet: parse_pairs (eval_gtsfm.py) and  *)
(* MVSDataset.build_list (datasets/gtsfm.py). pairs is a square matrix of  *)
(* pairwise scores, a sequence of rows; view ids count from 0.             *)
(***************************************************************************)
\* largest number of views
MaxViews == 3

\* the pairwise scores
PairScores == 0 .. (MaxViews - 1)
\* -np.inf: below every score
NegInf == -1

\* pairs[i][i] = -np.inf for every i
WithDiagonal(pairs) ==
    [i \in DOMAIN pairs |->
        [j \in DOMAIN pairs |-> IF i = j THEN NegInf ELSE pairs[i][j]]]

\* the row indices (from 1) of column j in ascending order of their entry
ArgsortColumn(M, j) ==
    CHOOSE s \in [DOMAIN M -> DOMAIN M] :
        /\ \A k \in DOMAIN M : \A l \in DOMAIN M : k # l => s[k] # s[l]
        /\ \A k \in DOMAIN M : \A l \in DOMAIN M :
               k < l => M[s[k]][j] <= M[s[l]][j]

\* np.argsort(M, axis=0): entry [k][j] is the row (from 0) of the k-th
\* smallest entry of column j
argsort(M) ==
    [k \in DOMAIN M |-> [j \in DOMAIN M |-> ArgsortColumn(M, j)[k] - 1]]

\* A[:, 1:stop][:, ::-1]: of every row the columns 1 .. stop-1 (from 0),
\* reversed
SliceReversed(A, stop) ==
    LET hi == IF stop < Len(A) THEN stop ELSE Len(A)
    IN  [r \in DOMAIN A |-> [c \in 1 .. (hi - 1) |-> A[r][hi - c + 1]]]

\* eval_gtsfm.py:81-86: the source views ranked for each view
pair_idx(pairs, nviews) == SliceReversed(argsort(WithDiagonal(pairs)), nviews)

\* eval_gtsfm.py:88-93: src_views is read at row i, the variable of the loop
\* of lines 83-84, which ended at the last view
parse_pairs(pairs, nviews) ==
    LET i == Len(pairs)
    IN  [view_idx \in DOMAIN pairs |->
            <<view_idx - 1, pair_idx(pairs, nviews)[i]>>]

\* datasets/gtsfm.py:42-56: every source view is kept (1:), the row is the
\* one of the loop's own view
build_list(pairs) ==
    [i \in DOMAIN pairs |->
        <<"scan1", i - 1, pair_idx(pairs, Len(pairs))[i]>>]

(***************************************************************************)
(* SpecPairs: both functions applied to a score matrix.                    *)
(***************************************************************************)
\* the columns a score matrix may have at j: no tie off the diagonal
ScoreColumns(n, j) ==
    {c \in [1 .. n -> PairScores] :
        /\ c[j] = 0
        /\ \A a \in 1 .. n : \A b \in 1 .. n :
               (a # b /\ a # j /\ b # j) => c[a] # c[b]}

ScoreMatrices(n) ==
    {[i \in 1 .. n |-> [j \in 1 .. n |-> cols[j][i]]] :
        cols \in {f \in [1 .. n -> UNION {ScoreColumns(n, j) : j \in 1 .. n}] :
                     \A j \in 1 .. n : f[j] \in ScoreColumns(n, j)}}

InitPairs ==
    /\ PruneIdle
    /\ GraphIdle
    /\ ReportIdle
    /\ CompareIdle
    /\ CameraIdle

    /\ \E n \in 1 .. MaxViews :
           \E pairs \in ScoreMatrices(n), nviews \in 1 .. n :
               mvs = [pairs |-> pairs, nviews |-> nviews, called |-> FALSE,
                      data |-> <<>>, built |-> FALSE, metas |-> <<>>]

\* eval_gtsfm.py:83-84: the diagonal is written into the caller's array
ParsePairs ==
    /\ ~mvs.called
    /\ mvs' = [mvs EXCEPT !.called = TRUE,
                          !.pairs = WithDiagonal(mvs.pairs),
                          !.data = parse_pairs(mvs.pairs, mvs.nviews)]
    /\ UNCHANGED <<pruneVars, graphVars, reportVars, compareVars, cameraVars>>

\* datasets/gtsfm.py:42-47: the diagonal is written into data["pairs"]
BuildList ==
    /\ ~mvs.built
    /\ mvs' = [mvs EXCEPT !.built = TRUE,
                          !.pairs = WithDiagonal(mvs.pairs),
                          !.metas = build_list(mvs.pairs)]
    /\ UNCHANGED <<pruneVars, graphVars, reportVars, compareVars, cameraVars>>

NextPairs == ParsePairs \/ BuildList

SpecPairs == InitPairs /\ [][NextPairs]_vars

\* C26: parse_pairs returns one tuple per view v = 0 .. num_views-1 whose
\* first element is v and whose source-view list is the one ranked for v
\* itself (row v of the ranking), so two views with different rankings
\* receive different source-view lists.
C26_EachViewGetsItsOwnSourceViews ==
    mvs.called =>
        /\ Len(mvs.data) = Len(mvs.pairs)
        /\ \A v \in DOMAIN mvs.pairs :
               /\ mvs.data[v][1] = v - 1
               /\ mvs.data[v][2] = pair_idx(mvs.pairs, mvs.nviews)[v]

====
